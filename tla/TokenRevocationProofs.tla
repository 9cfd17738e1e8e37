-------------------------- MODULE TokenRevocationProofs --------------------------
(***************************************************************************)
(* Universal logout ends, in the database and in the cache, every session  *)
(* whose row it has listed, except those that a request was putting into   *)
(* the cache when the row was deleted: for any number of sessions and of   *)
(* requests that go on meanwhile, whatever CILogon answers and whichever   *)
(* workers die; and the record of a token is deleted only after the token  *)
(* was revoked, while CILogon answers and one thing is done at a time.     *)
(***************************************************************************)
EXTENDS TokenRevocation, TokenRefreshProofs

\* Past the listing, a session that is owed is still to be deleted; or its row is gone, no
\* request will write its entry, and the entry is gone or will be deleted next.
Owing ==
  logout.pc = "end" =>
    \A s \in logout.owed :
      \/ s \in logout.listed
      \/ /\ store[s] = Absent /\ Late(s) = {}
         /\ s \in logout.half \/ cached[s] = Absent

\* Sessions are deleted one after another.
OneHalf == logout # Asleep => \A s, z \in logout.half : s = z

AllInv ==
  /\ IInv
  /\ logout \in LogoutState
  /\ gc \in GcState
  /\ old \subseteq Agents
  /\ OneHalf
  /\ Owing

\* The invariant of TokenRefresh does not speak of logouts and collections: it
\* depends on the tokens only through their types.
LEMMA Undisturbed ==
  ASSUME IInv, UNCHANGED <<env, req, lock>>,
         store' \in [Sessions -> SessionState], cached' \in [Sessions -> SessionState],
         row' \in [Agents -> TokenOrNone],
         expired' \subseteq Tokens, dead' \subseteq Tokens, replaced' \subseteq Tokens
  PROVE  IInv'
  BY DEF IInv, TypeOK, Carries, Sound, HolderAdded, Holding

LEMMA RevokeType ==
  ASSUME IInv, NEW t \in Tokens, Revoke(t) PROVE dead' \subseteq Tokens
  BY DEF Revoke, IInv, TypeOK

LEMMA AllInit_ == AllInit => AllInv
<1> SUFFICES ASSUME AllInit PROVE AllInv
  OBVIOUS
<1>1. IInv
  BY IInvInit DEF AllInit
<1>2. Asleep \in LogoutState /\ Asleep \in GcState /\ Asleep.pc # "end"
  BY DEF Asleep, LogoutState, GcState
<1> QED
  BY <1>1, <1>2 DEF AllInit, AllInv, OneHalf, Owing

LEMMA Awake ==
  ASSUME AllInv, logout # Asleep
  PROVE  logout \in [pc : {"relay", "revoke", "end"}, here : SUBSET Sessions,
                     own : TokenOrNone, todo : SUBSET Tokens, listed : SUBSET Sessions,
                     half : SUBSET Sessions, owed : SUBSET Sessions]
  BY DEF AllInv, LogoutState

LEMMA ServeStep == ASSUME AllInv, Serve PROVE AllInv'
<1>1. IInv'
  BY IInvStep DEF Serve, AllInv
<1>2. ASSUME logout.pc = "end", NEW s \in logout.owed, s \notin logout.listed
      PROVE  /\ store'[s] = Absent /\ Late(s)' = {}
             /\ s \in logout.half \/ cached'[s] = Absent
  <2>1. logout # Asleep
    BY <1>2 DEF Asleep
  <2>2. s \in Sessions /\ s \in KeysInHand
    BY <1>2, <2>1, Awake DEF KeysInHand
  <2>3. /\ store[s] = Absent /\ Late(s) = {}
        /\ s \in logout.half \/ cached[s] = Absent
    BY <1>2 DEF AllInv, OneHalf, Owing
  <2>4. StaysEnded(s)
    BY <2>2, <2>3, Gone DEF Serve, AllInv
  <2>5. Late(s)' = {}
    BY <2>3, <2>4 DEF StaysEnded
  <2>6. store'[s] = Absent /\ cached'[s] \in {cached[s], Absent}
    BY <2>3, <2>4, <2>5 DEF StaysEnded
  <2> QED
    BY <2>3, <2>5, <2>6
<1>3. Owing'
  BY <1>2 DEF Owing, Serve
<1> QED
  BY <1>1, <1>3 DEF AllInv, OneHalf, Serve

LEMMA LogOutStep ==
  ASSUME AllInv, NEW here \in SUBSET Sessions, NEW own \in TokenOrNone, LogOut(here, own), IInv',
         UNCHANGED <<gc, old>>
  PROVE  AllInv'
<1> DEFINE new == [pc |-> "relay", here |-> here, own |-> own, todo |-> {}, listed |-> {},
                   half |-> {}, owed |-> {}]
<1>1. new \in LogoutState /\ new.pc # "end" /\ new.half = {}
  BY DEF LogoutState
<1>2. logout' = new
  BY DEF LogOut
<1> HIDE DEF new
<1> QED
  BY <1>1, <1>2 DEF AllInv, OneHalf, Owing

LEMMA LogOutHereStep == ASSUME AllInv, NEW r \in Requests, LogOutHere(r) PROVE AllInv'
<1>1. IInv /\ TypeOK
  BY DEF AllInv, IInv
<1>2. req[r].token \in TokenOrNone /\ {req[r].session} \in SUBSET Sessions
  <2>1. req[r] \in Working
    BY <1>1, Cases DEF LogOutHere, At, Busy
  <2> QED
    BY <2>1 DEF LogOutHere, Working, SessionState
<1>3. IInv'
  <2>1. req' \in [Requests -> RequestState] /\ Carries' /\ HolderAdded'
    BY <1>1, IdleStep DEF LogOutHere
  <2> QED
    BY <1>1, <2>1 DEF LogOutHere, TypeOK, IInv
<1>4. LogOut({req[r].session}, req[r].token) /\ UNCHANGED <<gc, old>>
  BY DEF LogOutHere
<1> QED
  BY <1>2, <1>3, <1>4, LogOutStep

LEMMA LogOutByApiStep == ASSUME AllInv, LogOutByApi PROVE AllInv'
<1>1. IInv'
  BY Undisturbed DEF LogOutByApi, vars, AllInv, IInv, TypeOK
<1>2. LogOut({}, NoToken) /\ NoToken \in TokenOrNone /\ UNCHANGED <<gc, old>>
  BY DEF LogOutByApi, TokenOrNone
<1> QED
  BY <1>1, <1>2, LogOutStep

LEMMA ListStep == ASSUME AllInv, ListTokens PROVE AllInv'
<1> DEFINE work == (Recorded(Agents) \cup {logout.own}) \ {NoToken}
           new == [logout EXCEPT !.pc = "revoke", !.todo = work]
<1>1. logout # Asleep /\ logout' = new /\ UNCHANGED <<vars, gc, old>>
  BY DEF ListTokens, Asleep
<1>2. TypeOK
  BY DEF AllInv, IInv
<1>3. work \subseteq Tokens
  <2>1. logout.own \in TokenOrNone
    BY <1>1, Awake
  <2> QED
    BY <1>2, <2>1 DEF Recorded, TypeOK, TokenOrNone
<1> HIDE DEF work
<1>4. new \in LogoutState /\ new.pc # "end" /\ new.half = logout.half
  BY <1>1, <1>3, Awake DEF LogoutState
<1> HIDE DEF new
<1>5. IInv'
  BY <1>1, Undisturbed DEF vars, AllInv, IInv, TypeOK
<1> QED
  BY <1>1, <1>4, <1>5 DEF AllInv, OneHalf, Owing

LEMMA SkipStep == ASSUME AllInv, SkipRevocation PROVE AllInv'
<1> DEFINE new == [logout EXCEPT !.pc = "end", !.listed = Alive, !.owed = Alive]
<1>1. logout # Asleep /\ logout' = new /\ UNCHANGED <<vars, gc, old>>
  BY DEF SkipRevocation, Asleep
<1>2. /\ new \in LogoutState /\ new.half = logout.half
      /\ new.listed = Alive /\ new.owed = Alive
  BY <1>1, Awake DEF LogoutState, Alive
<1> HIDE DEF new
<1>3. IInv'
  BY <1>1, Undisturbed DEF vars, AllInv, IInv, TypeOK
<1>4. Owing'
  BY <1>1, <1>2 DEF Owing
<1> QED
  BY <1>1, <1>2, <1>3, <1>4 DEF AllInv, OneHalf

LEMMA RevokeListedStep ==
  ASSUME AllInv, NEW t \in Tokens, RevokeListed(t) PROVE AllInv'
<1> DEFINE new == [logout EXCEPT !.todo = @ \ {t}]
<1>1. logout # Asleep /\ logout' = new /\ logout.pc = "revoke"
  BY DEF RevokeListed, Asleep
<1>2. new \in LogoutState /\ new.pc # "end" /\ new.half = logout.half
  BY <1>1, Awake DEF LogoutState
<1> HIDE DEF new
<1>3. IInv'
  BY RevokeType, Undisturbed DEF RevokeListed, AllInv, IInv, TypeOK
<1> QED
  BY <1>1, <1>2, <1>3 DEF AllInv, OneHalf, Owing, RevokeListed

LEMMA DeleteStep == ASSUME AllInv, DeleteAssociations PROVE AllInv'
<1> DEFINE new == [logout EXCEPT !.pc = "end", !.listed = Alive, !.owed = Alive]
<1>1. logout # Asleep /\ logout' = new
  BY DEF DeleteAssociations, Asleep
<1>2. /\ new \in LogoutState /\ new.half = logout.half
      /\ new.listed = Alive /\ new.owed = Alive
  BY <1>1, Awake DEF LogoutState, Alive
<1> HIDE DEF new
<1>3. IInv'
  <2>1. row' \in [Agents -> TokenOrNone]
    BY DEF DeleteAssociations, TokenOrNone
  <2> QED
    BY <2>1, Undisturbed DEF DeleteAssociations, AllInv, IInv, TypeOK
<1>4. Owing'
  BY <1>1, <1>2 DEF Owing
<1> QED
  BY <1>1, <1>2, <1>3, <1>4 DEF AllInv, OneHalf, DeleteAssociations

LEMMA DeleteRowStep == ASSUME AllInv, NEW s \in Sessions, DeleteRow(s) PROVE AllInv'
<1> DEFINE left == IF Late(s) = {} THEN logout.owed ELSE logout.owed \ {s}
           new == [logout EXCEPT !.listed = @ \ {s}, !.half = {s}, !.owed = left]
<1>1. /\ logout # Asleep /\ logout' = new /\ logout.pc = "end" /\ logout.half = {}
      /\ store' = [store EXCEPT ![s] = Absent] /\ UNCHANGED <<cached, req>>
  BY DEF DeleteRow, Asleep
<1>2. /\ new \in LogoutState
      /\ new.listed = logout.listed \ {s} /\ new.half = {s} /\ new.owed = left
      /\ logout.owed \subseteq Sessions
  BY <1>1, Awake DEF LogoutState
<1> HIDE DEF new
<1>3. /\ store \in [Sessions -> SessionState]
      /\ store' \in [Sessions -> SessionState]
  BY <1>1 DEF AllInv, IInv, TypeOK, SessionState
<1>4. IInv'
  BY <1>3, Undisturbed DEF DeleteRow, AllInv, IInv, TypeOK
<1>5. \A z : Late(z)' = Late(z)
  BY <1>1 DEF Late
<1>6. Owing'
  <2>1. \A z \in logout.owed :
          \/ z \in logout.listed
          \/ store[z] = Absent /\ Late(z) = {} /\ cached[z] = Absent
    BY <1>1 DEF AllInv, OneHalf, Owing
  <2>2. \A z \in left : z = s => Late(s) = {}
    OBVIOUS
  <2>3. \A z \in left : z \in logout.owed
    OBVIOUS
  <2> QED
    BY <1>1, <1>2, <1>3, <1>5, <2>1, <2>2, <2>3 DEF Owing
<1> QED
  BY <1>1, <1>2, <1>4, <1>6 DEF AllInv, OneHalf, DeleteRow

LEMMA DeleteEntryStep == ASSUME AllInv, NEW s \in Sessions, DeleteEntry(s) PROVE AllInv'
<1> DEFINE new == [logout EXCEPT !.half = {}]
<1>1. /\ logout # Asleep /\ logout' = new /\ logout.pc = "end" /\ s \in logout.half
      /\ cached' = [cached EXCEPT ![s] = Absent] /\ UNCHANGED <<store, req>>
  BY DEF DeleteEntry, Asleep
<1>2. /\ new \in LogoutState
      /\ new.listed = logout.listed /\ new.half = {} /\ new.owed = logout.owed
      /\ logout.owed \subseteq Sessions
  BY <1>1, Awake DEF LogoutState
<1> HIDE DEF new
<1>3. /\ cached \in [Sessions -> SessionState]
      /\ cached' \in [Sessions -> SessionState]
  BY <1>1 DEF AllInv, IInv, TypeOK, SessionState
<1>4. IInv'
  BY <1>3, Undisturbed DEF DeleteEntry, AllInv, IInv, TypeOK
<1>5. \A z : Late(z)' = Late(z)
  BY <1>1 DEF Late
<1>6. logout.half \subseteq {s}
  BY <1>1 DEF AllInv, OneHalf
<1>7. Owing'
  <2>1. \A z \in logout.owed :
          \/ z \in logout.listed
          \/ /\ store[z] = Absent /\ Late(z) = {}
             /\ z \in logout.half \/ cached[z] = Absent
    BY <1>1 DEF AllInv, OneHalf, Owing
  <2> QED
    BY <1>1, <1>2, <1>3, <1>5, <1>6, <2>1 DEF Owing
<1> QED
  BY <1>1, <1>2, <1>4, <1>7 DEF AllInv, OneHalf, DeleteEntry

LEMMA FlushStep == ASSUME AllInv, FlushOwn PROVE AllInv'
<1> DEFINE new == [logout EXCEPT !.listed = logout.here, !.here = {}]
<1>1. /\ logout # Asleep /\ logout' = new /\ logout.pc = "end"
      /\ logout.listed = {} /\ UNCHANGED <<vars, gc, old>>
  BY DEF FlushOwn, Asleep
<1>2. /\ new \in LogoutState
      /\ new.listed = logout.here /\ new.half = logout.half /\ new.owed = logout.owed
  BY <1>1, Awake DEF LogoutState
<1> HIDE DEF new
<1>3. IInv'
  BY <1>1, Undisturbed DEF vars, AllInv, IInv, TypeOK
<1>4. Owing'
  BY <1>1, <1>2 DEF Owing, AllInv, vars, Late
<1> QED
  BY <1>1, <1>2, <1>3, <1>4 DEF AllInv, OneHalf

LEMMA FinishStep == ASSUME AllInv, FinishLogout PROVE AllInv'
<1>1. Asleep \in LogoutState /\ Asleep.pc # "end"
  BY DEF Asleep, LogoutState
<1>2. IInv'
  BY Undisturbed DEF FinishLogout, vars, AllInv, IInv, TypeOK
<1> QED
  BY <1>1, <1>2 DEF AllInv, OneHalf, Owing, FinishLogout

LEMMA GcStep == ASSUME AllInv, GcNext PROVE AllInv'
<1>1. gc' \in GcState
  <2>1. Asleep \in GcState
    BY DEF GcState
  <2>2. CASE Garner
    <3>1. Recorded(old) \subseteq Tokens /\ old \subseteq Agents
      BY DEF AllInv, IInv, TypeOK, Recorded, TokenOrNone
    <3> QED
      BY <2>2, <3>1 DEF Garner, GcState
  <2>3. ASSUME NEW t \in Tokens, RevokeOld(t) PROVE gc' \in GcState
    <3>1. gc \in [pc : {"revoke"}, todo : SUBSET Tokens, agents : SUBSET Agents]
      BY <2>3 DEF RevokeOld, AllInv, GcState, Asleep
    <3> QED
      BY <2>3, <3>1 DEF RevokeOld, GcState
  <2>4. ASSUME NEW a \in Agents, Age(a) PROVE gc' \in GcState
    BY <2>4 DEF Age, AllInv
  <2> QED
    BY <2>1, <2>2, <2>3, <2>4 DEF GcNext, DeleteOld
<1>2. IInv' /\ UNCHANGED <<store, cached, req, logout>>
  <2>1. CASE Garner \/ \E a \in Agents : Age(a)
    BY <2>1, Undisturbed DEF Garner, Age, vars, AllInv, IInv, TypeOK
  <2>2. ASSUME NEW t \in Tokens, RevokeOld(t) PROVE IInv' /\ UNCHANGED <<store, cached, req, logout>>
    BY <2>2, RevokeType, Undisturbed DEF RevokeOld, AllInv, IInv, TypeOK
  <2>3. CASE DeleteOld
    <3>1. row' \in [Agents -> TokenOrNone]
      BY <2>3 DEF DeleteOld, AllInv, IInv, TypeOK, TokenOrNone
    <3> QED
      BY <2>3, <3>1, Undisturbed DEF DeleteOld, AllInv, IInv, TypeOK
  <2> QED
    BY <2>1, <2>2, <2>3 DEF GcNext
<1>3. old' \subseteq Agents
  BY DEF GcNext, Garner, RevokeOld, DeleteOld, Age, AllInv
<1> QED
  BY <1>1, <1>2, <1>3 DEF AllInv, OneHalf, Owing, Late

LEMMA AllStep == AllInv /\ [AllNext]_allVars => AllInv'
<1> SUFFICES ASSUME AllInv, [AllNext]_allVars PROVE AllInv'
  OBVIOUS
<1>1. CASE UNCHANGED allVars
  <2>1. IInv'
    BY <1>1, Undisturbed DEF allVars, vars, AllInv, IInv, TypeOK
  <2> QED
    BY <1>1, <2>1 DEF allVars, vars, AllInv, OneHalf, Owing, Late
<1> QED
  BY <1>1, LogOutHereStep, LogOutByApiStep, ServeStep, ListStep, SkipStep, RevokeListedStep, DeleteStep,
     DeleteRowStep, DeleteEntryStep, FlushStep, FinishStep, GcStep DEF AllNext, LogoutNext

LEMMA AllAlways == AllSpec => []AllInv
  BY AllInit_, AllStep, PTL DEF AllSpec

-------------------------------------------------------------------------------
(* Only rows that exist have an age.                                       *)

OldRows == \A a \in old : row[a] # NoToken

\* A request records a token, and nothing else of TokenRefresh changes a row.
LEMMA RowStays ==
  ASSUME IInv, Next, NEW a \in Agents, row[a] # NoToken PROVE row'[a] # NoToken
<1>1. ASSUME NEW r \in Requests, Associate(r) PROVE row'[a] # NoToken
  <2>1. req[r].token \in Tokens
    BY <1>1 DEF IInv, Carries, Sound, Early, Associate, At
  <2>2. row' = [row EXCEPT ![Agent[req[r].session]] = req[r].token]
    BY <1>1 DEF Associate
  <2>3. row \in [Agents -> TokenOrNone]
    BY DEF IInv, TypeOK
  <2> QED
    BY <2>1, <2>2, <2>3, ValueAssumption
<1>2. UNCHANGED row \/ \E r \in Requests : Associate(r)
  BY DEF Next, Login, Arrive, Step, Refresh, AcquireRefreshLock, CheckExpiry, RefreshSucceeds,
         RefreshRefused, RefreshFails, ReleaseRefreshLock, Respond, Kill, Expire, LockExpires,
         Fill, Forget, ViewFails, SaveRow, SetEntry, Evict
<1> QED
  BY <1>1, <1>2

LEMMA OldRowsStep == AllInv /\ OldRows /\ [AllNext]_allVars => OldRows'
<1> SUFFICES ASSUME AllInv, OldRows, [AllNext]_allVars PROVE OldRows'
  OBVIOUS
<1>1. CASE Serve
  BY <1>1, RowStays DEF Serve, OldRows, AllInv
<1>2. CASE UNCHANGED <<row, old>>
  BY <1>2 DEF OldRows
<1>3. CASE DeleteAssociations
  BY <1>3 DEF DeleteAssociations, OldRows
<1>4. CASE DeleteOld
  <2>1. \A a \in old : a \notin gc.agents => row'[a] = row[a]
    BY <1>4 DEF DeleteOld, AllInv
  <2> QED
    BY <1>4, <2>1 DEF DeleteOld, OldRows
<1>5. ASSUME NEW a \in Agents, Age(a) PROVE OldRows'
  BY <1>5 DEF Age, OldRows, vars
<1>6. \/ Serve \/ DeleteAssociations \/ DeleteOld \/ (\E a \in Agents : Age(a))
      \/ UNCHANGED <<row, old>>
  BY DEF AllNext, LogoutNext, GcNext, LogOutHere, LogOutByApi, ListTokens, SkipRevocation,
         RevokeListed, DeleteRow, DeleteEntry, FlushOwn, FinishLogout, Garner, RevokeOld, allVars, vars
<1> QED
  BY <1>1, <1>2, <1>3, <1>4, <1>5, <1>6

\* The types of requests, logout and collection through all their interleavings,
\* and that a row that is gone has no age.
THEOREM AllTypeCorrect == AllSpec => []AllTypeOK
<1>1. AllInit => OldRows
  BY DEF AllInit, OldRows
<1>2. AllInv /\ OldRows => AllTypeOK
  BY DEF AllInv, IInv, AllTypeOK, OldRows
<1> QED
  BY <1>1, <1>2, OldRowsStep, AllAlways, PTL DEF AllSpec

-------------------------------------------------------------------------------
(* What it is for.                                                         *)

\* When app_logout returns, every session of the user that had a row when the rows were
\* listed has ended in the database and in the cache, and nothing that was under way has
\* saved it again; excepted are those whose entry a request was about to write when their row
\* was deleted, for these can come back.  Nothing is assumed of CILogon, of the lock or of
\* the workers.
THEOREM LogoutEndsThemAll == AllSpec => LogoutEndsSessions
<1>1. AllInv /\ [AllNext]_allVars =>
        [FinishLogout =>
           \A s \in logout.owed : store[s] = Absent /\ cached[s] = Absent]_allVars
  BY DEF AllInv, OneHalf, Owing, FinishLogout
<1> QED
  BY <1>1, AllAlways, PTL DEF AllSpec, LogoutEndsSessions

\* The token lock keeps its meaning beside logouts and collections.
THEOREM OneRefreshBesideLogout == AllSpec => []OneRefreshAtATime
<1>1. AllInv => OneRefreshAtATime
  BY DEF AllInv, IInv, HolderAdded, OneRefreshAtATime
<1> QED
  BY <1>1, AllAlways, PTL

-------------------------------------------------------------------------------
(* Where one thing is done at a time and CILogon answers, the rows that a  *)
(* logout or a collection will delete are those whose tokens it has        *)
(* revoked or has still to revoke.                                         *)

Careful == env.serial /\ ~env.flaky

Covered(agents, todo) == \A a \in agents : row[a] \in Tokens => row[a] \in todo \cup dead

Accounted ==
  /\ logout = Asleep \/ gc = Asleep
  /\ logout.pc = "revoke" => Covered(Agents, logout.todo)
  /\ gc.pc = "revoke" => Covered(gc.agents \cap old, gc.todo)

AccountedInv == Careful => Accounted

LEMMA EnvStaysToo == [AllNext]_allVars => env' = env
  BY EnvStays DEF AllNext, LogoutNext, GcNext, Serve, LogOutHere, LogOutByApi, ListTokens,
     SkipRevocation, RevokeListed, DeleteAssociations, DeleteRow, DeleteEntry, FlushOwn, FinishLogout, Garner,
     RevokeOld, DeleteOld, Age, allVars, vars

\* A token that has been revoked is no longer to be revoked.
LEMMA RevokedStaysCovered ==
  ASSUME Careful, NEW t \in Tokens, Revoke(t), UNCHANGED row,
         NEW agents, NEW todo, Covered(agents, todo)
  PROVE  \A a \in agents : row'[a] \in Tokens => row'[a] \in (todo \ {t}) \cup dead'
  BY DEF Careful, Revoke, Covered

LEMMA AccountedLogout == AllInv /\ Careful /\ Accounted /\ LogoutNext => Accounted'
<1> SUFFICES ASSUME AllInv, Careful, Accounted, LogoutNext PROVE Accounted'
  OBVIOUS
<1>1. ASSUME NEW here, NEW own, LogOut(here, own), gc' = gc, gc = Asleep PROVE Accounted'
  BY <1>1 DEF LogOut, Accounted, Asleep
<1>2. ASSUME gc' = gc, gc = Asleep, logout'.pc # "revoke" PROVE Accounted'
  BY <1>2 DEF Accounted, Asleep
<1>3. CASE LogOutByApi \/ \E r \in Requests : LogOutHere(r)
  BY <1>1, <1>3 DEF LogOutByApi, LogOutHere, MayStart
<1>4. logout # Asleep => gc = Asleep
  BY DEF Accounted
<1>5. CASE ListTokens
  <2>1. logout # Asleep /\ gc = Asleep /\ gc' = gc /\ UNCHANGED vars
    BY <1>4, <1>5 DEF ListTokens, Asleep
  <2>2. logout'.todo = (Recorded(Agents) \cup {logout.own}) \ {NoToken}
    BY <1>5, <2>1, Awake DEF ListTokens
  <2>3. Covered(Agents, logout.todo)'
    BY <2>1, <2>2, ValueAssumption DEF Covered, Recorded, vars
  <2> QED
    BY <2>1, <2>3 DEF Accounted, Asleep
<1>6. ASSUME NEW t \in Tokens, RevokeListed(t) PROVE Accounted'
  <2>1. logout # Asleep /\ gc = Asleep /\ gc' = gc /\ UNCHANGED row
    BY <1>4, <1>6 DEF RevokeListed, Asleep
  <2>2. logout'.todo = logout.todo \ {t}
    BY <1>6, <2>1, Awake DEF RevokeListed
  <2>3. Covered(Agents, logout.todo)
    BY <1>6 DEF RevokeListed, Accounted
  <2>4. Covered(Agents, logout.todo)'
    BY <1>6, <2>1, <2>2, <2>3, RevokedStaysCovered DEF RevokeListed, Covered
  <2> QED
    BY <2>1, <2>4 DEF Accounted, Asleep
<1>7. CASE \/ SkipRevocation \/ DeleteAssociations \/ FlushOwn \/ FinishLogout
           \/ \E s \in Sessions : DeleteRow(s) \/ DeleteEntry(s)
  <2>1. logout # Asleep /\ gc = Asleep /\ gc' = gc
    <3>1. CASE SkipRevocation \/ DeleteAssociations \/ FlushOwn \/ FinishLogout
      BY <1>4, <3>1 DEF SkipRevocation, DeleteAssociations, FlushOwn, FinishLogout, Asleep
    <3>2. ASSUME NEW s \in Sessions, DeleteRow(s) \/ DeleteEntry(s)
          PROVE  logout # Asleep /\ gc = Asleep /\ gc' = gc
      BY <1>4, <3>2 DEF DeleteRow, DeleteEntry, Asleep
    <3> QED
      BY <1>7, <3>1, <3>2
  <2>2. logout'.pc # "revoke"
    <3>1. CASE SkipRevocation \/ DeleteAssociations
      <4>1. logout' = [logout EXCEPT !.pc = "end", !.listed = Alive, !.owed = Alive]
        BY <3>1 DEF SkipRevocation, DeleteAssociations
      <4> QED
        BY <2>1, <4>1, Awake
    <3>2. CASE FlushOwn
      BY <2>1, <3>2, Awake DEF FlushOwn
    <3>3. CASE FinishLogout
      BY <3>3 DEF FinishLogout, Asleep
    <3>4. ASSUME NEW s \in Sessions, DeleteRow(s) PROVE logout'.pc # "revoke"
      BY <2>1, <3>4, Awake DEF DeleteRow
    <3>5. ASSUME NEW s \in Sessions, DeleteEntry(s) PROVE logout'.pc # "revoke"
      BY <2>1, <3>5, Awake DEF DeleteEntry
    <3> QED
      BY <1>7, <3>1, <3>2, <3>3, <3>4, <3>5
  <2> QED
    BY <1>2, <2>1, <2>2
<1> QED
  BY <1>3, <1>5, <1>6, <1>7 DEF LogoutNext

LEMMA AccountedCollection == AllInv /\ Careful /\ Accounted /\ GcNext => Accounted'
<1> SUFFICES ASSUME AllInv, Careful, Accounted, GcNext PROVE Accounted'
  OBVIOUS
<1>1. CASE Garner
  <2>1. /\ logout = Asleep /\ logout' = logout /\ UNCHANGED <<row, dead, old>>
        /\ gc' = [pc |-> "revoke", todo |-> Recorded(old), agents |-> old]
    BY <1>1 DEF Garner, MayStart, vars
  <2>2. Covered(gc.agents \cap old, gc.todo)'
    BY <2>1, ValueAssumption DEF Covered, Recorded
  <2> QED
    BY <2>1, <2>2 DEF Accounted, Asleep
<1>2. ASSUME NEW t \in Tokens, RevokeOld(t) PROVE Accounted'
  <2>1. /\ gc # Asleep /\ logout = Asleep /\ logout' = logout /\ UNCHANGED <<row, old>>
        /\ gc.pc = "revoke"
    BY <1>2 DEF RevokeOld, Accounted, Asleep
  <2>2. gc \in [pc : {"revoke"}, todo : SUBSET Tokens, agents : SUBSET Agents]
    BY <2>1 DEF AllInv, GcState
  <2>3. gc'.todo = gc.todo \ {t} /\ gc'.agents = gc.agents
    BY <1>2, <2>2 DEF RevokeOld
  <2>4. Covered(gc.agents \cap old, gc.todo)
    BY <2>1 DEF Accounted
  <2>5. Covered(gc.agents \cap old, gc.todo)'
    BY <1>2, <2>1, <2>3, <2>4, RevokedStaysCovered DEF RevokeOld, Covered
  <2> QED
    BY <2>1, <2>5 DEF Accounted, Asleep
<1>3. CASE DeleteOld
  <2>1. gc' = Asleep /\ logout = Asleep /\ logout' = logout
    BY <1>3 DEF DeleteOld, Accounted, Asleep
  <2> QED
    BY <2>1 DEF Accounted, Asleep
<1>4. ASSUME NEW a \in Agents, Age(a) PROVE Accounted'
  <2>1. gc = Asleep /\ gc' = gc /\ logout' = logout /\ UNCHANGED <<row, dead>>
    BY <1>4 DEF Age, vars
  <2> QED
    BY <2>1 DEF Accounted, Asleep, Covered
<1> QED
  BY <1>1, <1>2, <1>3, <1>4 DEF GcNext

LEMMA AccountedStep == AllInv /\ AccountedInv /\ [AllNext]_allVars => AccountedInv'
<1> SUFFICES ASSUME AllInv, Careful, Accounted, [AllNext]_allVars PROVE Accounted'
  BY EnvStaysToo DEF AccountedInv, Careful
<1>1. CASE Serve
  <2>1. logout = Asleep /\ gc = Asleep /\ logout' = Asleep /\ gc' = Asleep
    BY <1>1 DEF Serve, Careful
  <2> QED
    BY <2>1 DEF Accounted, Asleep
<1>2. CASE UNCHANGED allVars
  BY <1>2 DEF allVars, vars, Accounted, Covered
<1> QED
  BY <1>1, <1>2, AccountedLogout, AccountedCollection DEF AllNext

LEMMA ForgetsRevoked ==
  ASSUME AllInv, Careful, Accounted, AllNext, NEW a \in Agents,
         row[a] \in Tokens, row'[a] = NoToken
  PROVE  row[a] \in dead
<1>1. row[a] # NoToken /\ ~UNCHANGED row
  BY ValueAssumption
<1>2. CASE Serve
  BY <1>1, <1>2, RowStays DEF Serve, AllInv
<1>3. CASE DeleteAssociations
  BY <1>3 DEF DeleteAssociations, Accounted, Covered
<1>4. CASE DeleteOld
  <2>1. a \in gc.agents \cap old
    BY <1>1, <1>4 DEF DeleteOld
  <2> QED
    BY <1>4, <2>1 DEF DeleteOld, Accounted, Covered
<1>5. Serve \/ DeleteAssociations \/ DeleteOld
  BY <1>1 DEF AllNext, LogoutNext, GcNext, LogOutHere, LogOutByApi, ListTokens, SkipRevocation,
         RevokeListed, DeleteRow, DeleteEntry, FlushOwn, FinishLogout, Garner, RevokeOld, Age, vars
<1> QED
  BY <1>2, <1>3, <1>4, <1>5

\* While CILogon answers and one thing is done at a time, logout and collection
\* delete the record of a token only after the token was revoked.
THEOREM ForgottenAfterRevoked == AllSpec => OnlyRevokedAreForgotten
<1>1. AllInit => AccountedInv
  BY DEF AllInit, AccountedInv, Accounted, Asleep
<1>2. AllInv /\ AccountedInv /\ [AllNext]_allVars =>
        [env.serial /\ ~env.flaky => \A a \in Agents :
           row[a] \in Tokens /\ row'[a] = NoToken => row[a] \in dead]_allVars
  BY ForgetsRevoked DEF AccountedInv, Careful
<1> QED
  BY <1>1, <1>2, AccountedStep, AllAlways, PTL DEF AllSpec, OnlyRevokedAreForgotten

===============================================================================
