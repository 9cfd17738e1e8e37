--------------------------- MODULE TokenRefreshProofs ---------------------------
(***************************************************************************)
(* Theorems about TokenRefresh, for any number of sessions, user agents,   *)
(* tokens and concurrent requests.                                         *)
(***************************************************************************)
EXTENDS TokenRefresh, TLAPS

\* What a request that does something looks like.
Working == [pc : Steps, session : Sessions, token : SessionState, dirty : BOOLEAN]

LEMMA Cases ==
  ASSUME TypeOK, NEW r \in Requests, Busy(r)
  PROVE  req[r] \in Working
  BY DEF TypeOK, RequestState, Busy, Idle, Working

\* A step of one request leaves the others alone and keeps the types.
LEMMA Moved ==
  ASSUME TypeOK, NEW r \in Requests, NEW new \in RequestState,
         req' = [req EXCEPT ![r] = new]
  PROVE  /\ req' \in [Requests -> RequestState]
         /\ req'[r] = new
         /\ \A q \in Requests : q # r => req'[q] = req[q]
  BY DEF TypeOK

LEMMA GoToEffect ==
  ASSUME TypeOK, NEW r \in Requests, Busy(r), NEW pc \in Steps, GoTo(r, pc)
  PROVE  /\ req' \in [Requests -> RequestState]
         /\ req'[r].pc = pc
         /\ req'[r].token = req[r].token
         /\ req'[r].session = req[r].session
         /\ req'[r].dirty = req[r].dirty
         /\ \A q \in Requests : q # r => req'[q] = req[q]
<1> DEFINE new == [req[r] EXCEPT !.pc = pc]
<1>1. req[r] \in Working
  BY Cases
<1>2. /\ new \in RequestState /\ new.pc = pc
      /\ new.token = req[r].token /\ new.session = req[r].session
      /\ new.dirty = req[r].dirty
  BY <1>1 DEF Working, RequestState
<1>3. req' = [req EXCEPT ![r] = new]
  BY DEF GoTo
<1> HIDE DEF new
<1> QED
  BY <1>2, <1>3, Moved

LEMMA AnswerEffect ==
  ASSUME TypeOK, NEW r \in Requests, Busy(r),
         NEW tok \in SessionState, NEW d \in BOOLEAN,
         req' = [req EXCEPT ![r] = [@ EXCEPT !.pc = "release", !.token = tok, !.dirty = d]]
  PROVE  /\ req' \in [Requests -> RequestState]
         /\ req'[r].pc = "release"
         /\ req'[r].token = tok
         /\ req'[r].session = req[r].session
         /\ req'[r].dirty = d
         /\ \A q \in Requests : q # r => req'[q] = req[q]
<1> DEFINE new == [req[r] EXCEPT !.pc = "release", !.token = tok, !.dirty = d]
<1>1. req[r] \in Working
  BY Cases
<1>2. /\ new \in RequestState /\ new.pc = "release" /\ new.token = tok
      /\ new.session = req[r].session /\ new.dirty = d
  BY <1>1 DEF Working, RequestState, Steps
<1>3. req' = [req EXCEPT ![r] = new]
  OBVIOUS
<1> HIDE DEF new
<1> QED
  BY <1>2, <1>3, Moved

LEMMA FlushEffect ==
  ASSUME TypeOK, NEW r \in Requests, Busy(r),
         req' = [req EXCEPT ![r] = [@ EXCEPT !.pc = "forget", !.token = Absent]]
  PROVE  /\ req' \in [Requests -> RequestState]
         /\ req'[r].pc = "forget"
         /\ req'[r].token = Absent
         /\ req'[r].session = req[r].session
         /\ req'[r].dirty = req[r].dirty
         /\ \A q \in Requests : q # r => req'[q] = req[q]
<1> DEFINE new == [req[r] EXCEPT !.pc = "forget", !.token = Absent]
<1>1. req[r] \in Working
  BY Cases
<1>2. /\ new \in RequestState /\ new.pc = "forget" /\ new.token = Absent
      /\ new.session = req[r].session /\ new.dirty = req[r].dirty
  BY <1>1 DEF Working, RequestState, Steps, SessionState
<1>3. req' = [req EXCEPT ![r] = new]
  OBVIOUS
<1> HIDE DEF new
<1> QED
  BY <1>2, <1>3, Moved

LEMMA ArriveEffect ==
  ASSUME TypeOK, NEW r \in Requests, NEW s \in Sessions, Arrive(r, s)
  PROVE  /\ req' \in [Requests -> RequestState]
         /\ req'[r].pc \in {"fill", "view", "associate"}
         /\ req'[r].pc = "fill" => cached[s] = Absent
         /\ req'[r].pc = "associate" => Seen(s) # NoToken
         /\ req'[r].token = Seen(s) /\ Seen(s) \in TokenOrNone
         /\ req'[r].session = s
         /\ req'[r].dirty = FALSE
         /\ \A q \in Requests : q # r => req'[q] = req[q]
<1>1. PICK pc \in IF cached[s] = Absent THEN {"fill"} ELSE Onward(cached[s]) :
        req' = [req EXCEPT ![r] = [pc |-> pc, session |-> s, token |-> Seen(s), dirty |-> FALSE]]
  BY DEF Arrive, Loads
<1> DEFINE new == [pc |-> pc, session |-> s, token |-> Seen(s), dirty |-> FALSE]
<1>2. /\ pc \in {"fill", "view", "associate"} /\ pc \in Steps
      /\ pc = "fill" => cached[s] = Absent
      /\ pc = "associate" => Seen(s) # NoToken
  BY <1>1 DEF Onward, Seen, Steps
<1>3. Seen(s) \in TokenOrNone /\ Seen(s) \in SessionState
  BY DEF TypeOK, Arrive, Seen, SessionState
<1>4. /\ new \in RequestState /\ new.pc = pc /\ new.session = s /\ new.token = Seen(s)
      /\ new.dirty = FALSE
  BY <1>2, <1>3 DEF RequestState
<1>5. req' = [req EXCEPT ![r] = new]
  BY <1>1
<1> HIDE DEF new
<1> QED
  BY <1>2, <1>3, <1>4, <1>5, Moved

-------------------------------------------------------------------------------
(* The invariant: types; a request carries a token while it is about to    *)
(* refresh it, and a session while it is about to write its entry; if      *)
(* locks do not expire under a live holder, a request between taking and   *)
(* releasing the lock is the one that added it.                            *)

Early == {"associate", "lock", "check", "fetch"}

Sound(r) ==
  /\ req[r].pc \in Early => req[r].token \in Tokens
  /\ req[r].pc \in {"fill", "set"} => req[r].token \in TokenOrNone

Carries == \A r \in Requests : Sound(r)

HolderAdded == ~env.slow => \A r \in Requests : Holding(r) => lock = r

IInv == TypeOK /\ Carries /\ HolderAdded

LEMMA IInvInit == Init => IInv
  BY DEF Init, IInv, TypeOK, Carries, Sound, HolderAdded, Holding, Early, SessionState,
         TokenOrNone, RequestState, Idle

LEMMA Parts ==
  ASSUME IInv PROVE TypeOK /\ Carries /\ HolderAdded
  BY DEF IInv

LEMMA IssueType ==
  ASSUME TypeOK, NEW t, NEW old \in SUBSET Tokens, Issue(t, old)
  PROVE  expired' \subseteq Tokens /\ dead' \subseteq Tokens /\ replaced' \subseteq Tokens
  BY DEF Issue, TypeOK

\* The other requests carry what they carried, and if the lock is theirs it
\* stays theirs.
LEMMA OthersStay ==
  ASSUME IInv, NEW r \in Requests,
         \A q \in Requests : q # r => req'[q] = req[q],
         Sound(r)',
         ~env.slow => (Holding(r)' => lock' = r),
         ~env.slow => (lock' = lock \/ Holding(r) \/ lock = Free),
         UNCHANGED env
  PROVE  Carries' /\ HolderAdded'
<1>1. Carries'
  BY DEF IInv, Carries, Sound
<1>2. ASSUME ~env.slow, NEW q \in Requests, q # r, Holding(q)' PROVE lock' = q
  <2>1. Holding(q)
    BY <1>2 DEF Holding
  <2>2. lock = q
    BY <1>2, <2>1 DEF IInv, HolderAdded
  <2>3. ~Holding(r)
    BY <1>2, <2>2 DEF IInv, HolderAdded
  <2>4. lock # Free
    BY <2>2, ValueAssumption
  <2> QED
    BY <1>2, <2>2, <2>3, <2>4
<1>3. HolderAdded'
  BY <1>2 DEF HolderAdded
<1> QED
  BY <1>1, <1>3

-------------------------------------------------------------------------------
(* One lemma per action.                                                   *)

LEMMA LoginStep ==
  ASSUME IInv, NEW s \in Sessions, NEW t \in Tokens, Login(s, t) PROVE IInv'
<1>1. TypeOK
  BY Parts
<1>2. expired' \subseteq Tokens /\ dead' \subseteq Tokens /\ replaced' \subseteq Tokens
  BY <1>1, IssueType DEF Login
<1>3. TypeOK'
  BY <1>1, <1>2 DEF Login, TypeOK, SessionState, TokenOrNone
<1> QED
  BY <1>3 DEF Login, IInv, Carries, Sound, HolderAdded, Holding

LEMMA ArriveStep ==
  ASSUME IInv, NEW r \in Requests, NEW s \in Sessions, Arrive(r, s) PROVE IInv'
<1>1. TypeOK
  BY Parts
<1>2. /\ req' \in [Requests -> RequestState]
      /\ req'[r].pc \in {"fill", "view", "associate"}
      /\ req'[r].token = Seen(s) /\ Seen(s) \in TokenOrNone
      /\ req'[r].pc = "associate" => Seen(s) # NoToken
      /\ \A q \in Requests : q # r => req'[q] = req[q]
  BY <1>1, ArriveEffect
<1>3. Sound(r)' /\ ~Holding(r)'
  BY <1>2 DEF Sound, Early, Holding, TokenOrNone
<1>4. Carries' /\ HolderAdded'
  BY <1>2, <1>3, OthersStay DEF Arrive
<1> QED
  BY <1>1, <1>2, <1>4 DEF Arrive, TypeOK, IInv

LEMMA FillStep ==
  ASSUME IInv, NEW r \in Requests, Fill(r) PROVE IInv'
<1>1. TypeOK /\ Busy(r) /\ req[r].token \in TokenOrNone
  BY Parts DEF Fill, At, Busy, Carries, Sound
<1>2. req[r].session \in Sessions
  BY <1>1, Cases DEF Working
<1>3. PICK pc \in Onward(req[r].token) : GoTo(r, pc)
  BY DEF Fill
<1>4. /\ req' \in [Requests -> RequestState] /\ req'[r].pc = pc
      /\ req'[r].token = req[r].token
      /\ \A q \in Requests : q # r => req'[q] = req[q]
  BY <1>1, <1>3, GoToEffect DEF Onward, Steps
<1>5. Sound(r)' /\ ~Holding(r)'
  BY <1>1, <1>3, <1>4 DEF Sound, Early, Holding, TokenOrNone, Onward
<1>6. Carries' /\ HolderAdded'
  BY <1>4, <1>5, OthersStay DEF Fill
<1>7. cached' \in [Sessions -> SessionState]
  BY <1>1, <1>2 DEF Fill, TypeOK, SessionState
<1> QED
  BY <1>1, <1>4, <1>6, <1>7 DEF Fill, TypeOK, IInv

LEMMA AssociateStep ==
  ASSUME IInv, NEW r \in Requests, Associate(r) PROVE IInv'
<1>1. TypeOK /\ Busy(r) /\ req[r].token \in Tokens
  BY Parts DEF Associate, At, Busy, Carries, Sound, Early
<1>2. req[r].session \in Sessions
  BY <1>1, Cases DEF Working
<1>3. /\ req' \in [Requests -> RequestState] /\ req'[r].pc = "lock"
      /\ req'[r].token = req[r].token
      /\ \A q \in Requests : q # r => req'[q] = req[q]
  BY <1>1, GoToEffect DEF Associate, Steps
<1>4. Carries' /\ HolderAdded'
  BY <1>1, <1>3, OthersStay DEF Associate, Holding, Sound
<1>5. TypeOK'
  BY <1>1, <1>2, <1>3, AgentAssumption DEF Associate, TypeOK, TokenOrNone
<1> QED
  BY <1>4, <1>5 DEF IInv

LEMMA AcquireStep ==
  ASSUME IInv, NEW r \in Requests, AcquireRefreshLock(r) PROVE IInv'
<1>1. TypeOK /\ Busy(r) /\ req[r].token \in Tokens
  BY Parts DEF AcquireRefreshLock, At, Busy, Carries, Sound, Early
<1>2. CASE lock = Free /\ lock' = r /\ GoTo(r, "check")
  <2>1. /\ req' \in [Requests -> RequestState] /\ req'[r].pc = "check"
        /\ req'[r].token = req[r].token
        /\ \A q \in Requests : q # r => req'[q] = req[q]
    BY <1>1, <1>2, GoToEffect DEF Steps
  <2>2. Carries' /\ HolderAdded'
    <3>1. UNCHANGED env
      BY DEF AcquireRefreshLock
    <3> QED
      BY <1>1, <1>2, <2>1, <3>1, OthersStay DEF Sound
  <2> QED
    BY <1>1, <1>2, <2>1, <2>2 DEF AcquireRefreshLock, TypeOK, IInv
<1>3. CASE lock # Free /\ GoTo(r, "view") /\ UNCHANGED lock
  <2>1. /\ req' \in [Requests -> RequestState] /\ req'[r].pc = "view"
        /\ \A q \in Requests : q # r => req'[q] = req[q]
    BY <1>1, <1>3, GoToEffect DEF Steps
  <2>2. Carries' /\ HolderAdded'
    <3>1. UNCHANGED env
      BY DEF AcquireRefreshLock
    <3> QED
      BY <1>3, <2>1, <3>1, OthersStay DEF Holding, Early, Sound
  <2> QED
    BY <1>1, <1>3, <2>1, <2>2 DEF AcquireRefreshLock, TypeOK, IInv
<1> QED
  BY <1>2, <1>3 DEF AcquireRefreshLock

LEMMA CheckStep ==
  ASSUME IInv, NEW r \in Requests, CheckExpiry(r) PROVE IInv'
<1> DEFINE pc == IF req[r].token \in expired THEN "fetch" ELSE "release"
<1>1. TypeOK /\ Busy(r) /\ Holding(r) /\ req[r].token \in Tokens
  BY Parts DEF CheckExpiry, At, Busy, Carries, Sound, Early, Holding
<1>2. pc \in Steps /\ GoTo(r, pc)
  BY DEF CheckExpiry, Steps
<1> HIDE DEF pc
<1>3. /\ req' \in [Requests -> RequestState]
      /\ req'[r].pc \in {"fetch", "release"}
      /\ req'[r].token = req[r].token
      /\ \A q \in Requests : q # r => req'[q] = req[q]
  BY <1>1, <1>2, GoToEffect DEF pc
<1>4. Carries' /\ HolderAdded'
  BY <1>1, <1>3, OthersStay, Parts DEF CheckExpiry, HolderAdded, Sound
<1> QED
  BY <1>1, <1>3, <1>4 DEF CheckExpiry, TypeOK, IInv

LEMMA RefreshStep ==
  ASSUME IInv, NEW r \in Requests, Refresh(r) PROVE IInv'
<1>1. TypeOK /\ Busy(r) /\ Holding(r) /\ req[r].token \in Tokens
  BY Parts DEF Refresh, RefreshSucceeds, RefreshRefused, RefreshFails, At, Busy, Carries,
              Sound, Early, Holding
<1>2. req[r] \in Working
  BY <1>1, Cases
<1>3. ASSUME NEW t \in Tokens, RefreshSucceeds(r, t) PROVE IInv'
  <2>1. /\ req' \in [Requests -> RequestState] /\ req'[r].pc = "release"
        /\ \A q \in Requests : q # r => req'[q] = req[q]
    BY <1>1, <1>3, AnswerEffect DEF RefreshSucceeds, SessionState, TokenOrNone
  <2>2. expired' \subseteq Tokens /\ dead' \subseteq Tokens /\ replaced' \subseteq Tokens
    BY <1>1, <1>3, IssueType DEF RefreshSucceeds
  <2>3. Carries' /\ HolderAdded'
    BY <1>1, <1>3, <2>1, OthersStay, Parts DEF RefreshSucceeds, HolderAdded, Early, Sound
  <2> QED
    BY <1>1, <1>3, <2>1, <2>2, <2>3 DEF RefreshSucceeds, TypeOK, IInv
<1>4. CASE RefreshRefused(r)
  <2>1. /\ req' \in [Requests -> RequestState] /\ req'[r].pc = "forget"
        /\ \A q \in Requests : q # r => req'[q] = req[q]
    BY <1>1, <1>4, FlushEffect DEF RefreshRefused
  <2>2. store' \in [Sessions -> SessionState]
    BY <1>1, <1>2, <1>4 DEF RefreshRefused, TypeOK, Working, SessionState
  <2>3. Carries' /\ HolderAdded'
    BY <1>1, <1>4, <2>1, OthersStay, Parts DEF RefreshRefused, HolderAdded, Early, Sound
  <2> QED
    BY <1>1, <1>4, <2>1, <2>2, <2>3 DEF RefreshRefused, TypeOK, IInv
<1>5. CASE RefreshFails(r)
  <2>1. /\ req' \in [Requests -> RequestState] /\ req'[r].pc = "release"
        /\ \A q \in Requests : q # r => req'[q] = req[q]
    BY <1>1, <1>5, AnswerEffect DEF RefreshFails, SessionState, TokenOrNone
  <2>2. dead' \subseteq Tokens
    BY <1>1, <1>5 DEF RefreshFails, TypeOK
  <2>3. Carries' /\ HolderAdded'
    BY <1>1, <1>5, <2>1, OthersStay, Parts DEF RefreshFails, HolderAdded, Early, Sound
  <2> QED
    BY <1>1, <1>5, <2>1, <2>2, <2>3 DEF RefreshFails, TypeOK, IInv
<1> QED
  BY <1>3, <1>4, <1>5 DEF Refresh

LEMMA ForgetStep ==
  ASSUME IInv, NEW r \in Requests, Forget(r) PROVE IInv'
<1>1. TypeOK /\ Busy(r) /\ Holding(r)
  BY Parts DEF Forget, At, Busy, Holding
<1>2. req[r].session \in Sessions
  BY <1>1, Cases DEF Working
<1>3. /\ req' \in [Requests -> RequestState] /\ req'[r].pc = "release"
      /\ \A q \in Requests : q # r => req'[q] = req[q]
  BY <1>1, GoToEffect DEF Forget, Steps
<1>4. Carries' /\ HolderAdded'
  BY <1>1, <1>3, OthersStay, Parts DEF Forget, HolderAdded, Early, Sound
<1>5. cached' \in [Sessions -> SessionState]
  BY <1>1, <1>2 DEF Forget, TypeOK, SessionState
<1> QED
  BY <1>1, <1>3, <1>4, <1>5 DEF Forget, TypeOK, IInv

LEMMA ReleaseStep ==
  ASSUME IInv, NEW r \in Requests, ReleaseRefreshLock(r) PROVE IInv'
<1>1. TypeOK /\ Busy(r) /\ Holding(r)
  BY Parts DEF ReleaseRefreshLock, At, Busy, Holding
<1>2. /\ req' \in [Requests -> RequestState] /\ req'[r].pc = "view"
      /\ \A q \in Requests : q # r => req'[q] = req[q]
  BY <1>1, GoToEffect DEF ReleaseRefreshLock, Steps
<1>3. UNCHANGED env
  BY DEF ReleaseRefreshLock
<1>4. Carries' /\ HolderAdded'
  BY <1>1, <1>2, <1>3, OthersStay DEF Early, Holding, Sound
<1> QED
  BY <1>1, <1>2, <1>4 DEF ReleaseRefreshLock, TypeOK, IInv

LEMMA IdleStep ==
  ASSUME IInv, NEW r \in Requests, req' = [req EXCEPT ![r] = Idle], UNCHANGED <<env, lock>>
  PROVE  req' \in [Requests -> RequestState] /\ Carries' /\ HolderAdded'
<1>1. Idle \in RequestState /\ Idle.pc = "idle"
  BY DEF RequestState, Idle
<1>2. /\ req' \in [Requests -> RequestState] /\ req'[r] = Idle
      /\ \A q \in Requests : q # r => req'[q] = req[q]
  BY <1>1, Moved, Parts
<1> QED
  BY <1>1, <1>2, OthersStay DEF Early, Holding, Sound

LEMMA LeaveStep ==
  ASSUME IInv, NEW r \in Requests, Respond(r) \/ ViewFails(r) \/ Kill(r) PROVE IInv'
<1>1. TypeOK /\ req' \in [Requests -> RequestState] /\ Carries' /\ HolderAdded'
  BY IdleStep, Parts DEF Respond, ViewFails, Kill
<1> QED
  BY <1>1 DEF Respond, ViewFails, Kill, TypeOK, IInv

LEMMA SaveRowStep ==
  ASSUME IInv, NEW r \in Requests, SaveRow(r) PROVE IInv'
<1>1. TypeOK /\ Busy(r)
  BY Parts DEF SaveRow, At, Busy
<1>2. req[r].session \in Sessions /\ req[r].token \in TokenOrNone
  BY <1>1, Cases DEF Working, SaveRow, SessionState
<1>3. /\ req' \in [Requests -> RequestState] /\ req'[r].pc = "set"
      /\ req'[r].token = req[r].token
      /\ \A q \in Requests : q # r => req'[q] = req[q]
  BY <1>1, GoToEffect DEF SaveRow, Steps
<1>4. Carries' /\ HolderAdded'
  BY <1>2, <1>3, OthersStay DEF SaveRow, Holding, Early, Sound
<1>5. store' \in [Sessions -> SessionState]
  BY <1>1, <1>2 DEF SaveRow, TypeOK, SessionState
<1> QED
  BY <1>1, <1>3, <1>4, <1>5 DEF SaveRow, TypeOK, IInv

LEMMA SetEntryStep ==
  ASSUME IInv, NEW r \in Requests, SetEntry(r) PROVE IInv'
<1>1. TypeOK /\ Busy(r)
  BY Parts DEF SetEntry, At, Busy
<1>2. req[r].session \in Sessions /\ req[r].token \in SessionState
  BY <1>1, Cases DEF Working
<1>3. req' \in [Requests -> RequestState] /\ Carries' /\ HolderAdded'
  BY IdleStep DEF SetEntry
<1>4. cached' \in [Sessions -> SessionState]
  BY <1>1, <1>2 DEF SetEntry, TypeOK
<1> QED
  BY <1>1, <1>3, <1>4 DEF SetEntry, TypeOK, IInv

LEMMA EvictStep ==
  ASSUME IInv, NEW s \in Sessions, Evict(s) PROVE IInv'
<1>1. cached' \in [Sessions -> SessionState]
  BY Parts DEF Evict, TypeOK, SessionState
<1> QED
  BY <1>1 DEF Evict, IInv, TypeOK, Carries, Sound, HolderAdded, Holding

LEMMA LockExpiresStep == ASSUME IInv, LockExpires PROVE IInv'
<1>1. TypeOK /\ Carries /\ HolderAdded
  BY Parts
<1>2. ASSUME ~env.slow, NEW q \in Requests, Holding(q) PROVE FALSE
  BY <1>1, <1>2 DEF LockExpires, HolderAdded
<1>3. HolderAdded'
  BY <1>2 DEF LockExpires, HolderAdded, Holding
<1> QED
  BY <1>1, <1>3 DEF LockExpires, TypeOK, Carries, Sound, IInv

LEMMA IInvStep == IInv /\ [Next]_vars => IInv'
<1> SUFFICES ASSUME IInv, [Next]_vars PROVE IInv'
  OBVIOUS
<1>1. ASSUME NEW t \in Tokens, Expire(t) PROVE IInv'
  BY <1>1 DEF Expire, IInv, TypeOK, Carries, Sound, HolderAdded, Holding
<1>2. CASE UNCHANGED vars
  BY <1>2 DEF vars, IInv, TypeOK, Carries, Sound, HolderAdded, Holding
<1> QED
  BY <1>1, <1>2, LoginStep, ArriveStep, FillStep, AssociateStep, AcquireStep, CheckStep,
     RefreshStep, ForgetStep, ReleaseStep, LeaveStep, SaveRowStep, SetEntryStep, EvictStep,
     LockExpiresStep DEF Next, Step

LEMMA IInvAlways == Spec => []IInv
  BY IInvInit, IInvStep, PTL DEF Spec

-------------------------------------------------------------------------------
(* Theorems.                                                               *)

\* Type correctness, with every failure, slowness and kill allowed.
THEOREM TypeCorrect == Spec => []TypeOK
  BY IInvAlways, PTL DEF IInv

\* If a refresh never takes longer than the lock's timeout, at most one request
\* of the user is between acquire_refresh_lock and release_refresh_lock.
THEOREM OneRefresh == Spec => []OneRefreshAtATime
<1>1. IInv => OneRefreshAtATime
  BY DEF IInv, HolderAdded, OneRefreshAtATime
<1> QED
  BY <1>1, IInvAlways, PTL

\* What happens to a session whose row is gone, if nobody logs in.
StaysEnded(s) ==
  /\ store'[s] = Absent
  /\ Late(s)' \subseteq Late(s)
  /\ cached'[s] \in {cached[s], Absent} \/ Late(s)' # Late(s)

\* A step of one request: it does not become late, and if it writes the entry of the session
\* it was late and is no more.
LEMMA Ends ==
  ASSUME NEW r \in Requests, NEW s \in Sessions,
         \A q \in Requests : q # r => req'[q] = req[q],
         req'[r].pc \in {"fill", "set"} => req'[r].session # s,
         store'[s] = Absent,
         cached'[s] \in {cached[s], Absent} \/ r \in Late(s)
  PROVE  StaysEnded(s)
<1>1. \A q \in Requests : q # r => (q \in Late(s)' <=> q \in Late(s))
  BY DEF Late
<1>2. r \notin Late(s)'
  BY DEF Late
<1>3. Late(s) \subseteq Requests /\ Late(s)' \subseteq Requests
  BY DEF Late
<1> QED
  BY <1>1, <1>2, <1>3 DEF StaysEnded

LEMMA EndsByGoTo ==
  ASSUME TypeOK, NEW r \in Requests, NEW s \in Sessions, Busy(r),
         NEW pc \in Steps \ {"fill", "set"}, GoTo(r, pc), store'[s] = Absent,
         cached'[s] \in {cached[s], Absent} \/ r \in Late(s)
  PROVE  StaysEnded(s)
<1>1. req'[r].pc = pc /\ \A q \in Requests : q # r => req'[q] = req[q]
  BY GoToEffect
<1> QED
  BY <1>1, Ends

LEMMA EndsByLeaving ==
  ASSUME TypeOK, NEW r \in Requests, NEW s \in Sessions,
         req' = [req EXCEPT ![r] = Idle], store'[s] = Absent,
         cached'[s] \in {cached[s], Absent} \/ r \in Late(s)
  PROVE  StaysEnded(s)
<1>1. req'[r].pc = "idle" /\ \A q \in Requests : q # r => req'[q] = req[q]
  BY DEF TypeOK, Idle
<1> QED
  BY <1>1, Ends

\* Only a login brings back a session without a row, or a request that was late.
LEMMA Gone ==
  ASSUME IInv, [Next]_vars, NEW s \in Sessions, store[s] = Absent
  PROVE  (\E t \in Tokens : Login(s, t)) \/ StaysEnded(s)
<1>0. TypeOK
  BY Parts
<1>1. ASSUME NEW b \in Sessions, NEW t \in Tokens, Login(b, t)
      PROVE  (\E u \in Tokens : Login(s, u)) \/ StaysEnded(s)
  <2>1. CASE b = s
    BY <1>1, <2>1
  <2>2. CASE b # s
    BY <1>0, <1>1, <2>2 DEF Login, TypeOK, StaysEnded, Late
  <2> QED
    BY <2>1, <2>2
<1>2. ASSUME NEW r \in Requests, NEW b \in Sessions, Arrive(r, b) PROVE StaysEnded(s)
  <2>1. /\ req'[r].session = b /\ (req'[r].pc = "fill" => cached[b] = Absent)
        /\ req'[r].pc \in {"fill", "view", "associate"}
        /\ \A q \in Requests : q # r => req'[q] = req[q]
    BY <1>0, <1>2, ArriveEffect
  <2>2. b = s => cached[b] # Absent
    BY <1>2 DEF Arrive, Seen
  <2> QED
    BY <1>2, <2>1, <2>2, Ends DEF Arrive
<1>3. ASSUME NEW r \in Requests, Fill(r) PROVE StaysEnded(s)
  <2>1. Busy(r) /\ store' = store /\ cached' = [cached EXCEPT ![req[r].session] = req[r].token]
    BY <1>3 DEF Fill, At, Busy
  <2>2. PICK pc \in Onward(req[r].token) : GoTo(r, pc)
    BY <1>3 DEF Fill
  <2>3. pc \in Steps \ {"fill", "set"}
    BY DEF Onward, Steps
  <2>4. cached'[s] = cached[s] \/ r \in Late(s)
    BY <1>0, <1>3, <2>1 DEF TypeOK, Late, Fill, At
  <2> QED
    BY <1>0, <2>1, <2>2, <2>3, <2>4, EndsByGoTo
<1>4. ASSUME NEW r \in Requests, Associate(r) PROVE StaysEnded(s)
  BY <1>0, <1>4, EndsByGoTo DEF Associate, At, Busy, Steps
<1>5. ASSUME NEW r \in Requests, AcquireRefreshLock(r) PROVE StaysEnded(s)
  <2>1. Busy(r) /\ UNCHANGED <<store, cached>>
    BY <1>5 DEF AcquireRefreshLock, At, Busy
  <2>2. GoTo(r, "check") \/ GoTo(r, "view")
    BY <1>5 DEF AcquireRefreshLock
  <2> QED
    BY <1>0, <2>1, <2>2, EndsByGoTo DEF Steps
<1>6. ASSUME NEW r \in Requests, CheckExpiry(r) PROVE StaysEnded(s)
  <2>1. Busy(r) /\ UNCHANGED <<store, cached>>
    BY <1>6 DEF CheckExpiry, At, Busy
  <2>2. PICK pc \in {"fetch", "release"} : GoTo(r, pc)
    BY <1>6 DEF CheckExpiry
  <2> QED
    BY <1>0, <2>1, <2>2, EndsByGoTo DEF Steps
<1>7. ASSUME NEW r \in Requests, RefreshRefused(r) PROVE StaysEnded(s)
  <2>1. Busy(r) /\ cached' = cached /\ store' = [store EXCEPT ![req[r].session] = Absent]
    BY <1>7 DEF RefreshRefused, At, Busy
  <2>2. req'[r].pc = "forget" /\ \A q \in Requests : q # r => req'[q] = req[q]
    BY <1>0, <1>7, <2>1, FlushEffect DEF RefreshRefused
  <2>3. store'[s] = Absent
    BY <1>0, <2>1 DEF TypeOK
  <2> QED
    BY <2>1, <2>2, <2>3, Ends
<1>8. ASSUME NEW r \in Requests, RefreshFails(r) \/ \E t \in Tokens : RefreshSucceeds(r, t)
      PROVE  StaysEnded(s)
  <2>1. Busy(r) /\ UNCHANGED <<store, cached>>
    BY <1>8 DEF RefreshFails, RefreshSucceeds, At, Busy
  <2>2. \E tok \in SessionState, d \in BOOLEAN :
          req' = [req EXCEPT ![r] = [@ EXCEPT !.pc = "release", !.token = tok, !.dirty = d]]
    BY <1>8 DEF RefreshFails, RefreshSucceeds, SessionState, TokenOrNone
  <2>3. req'[r].pc = "release" /\ \A q \in Requests : q # r => req'[q] = req[q]
    BY <1>0, <2>1, <2>2, AnswerEffect
  <2> QED
    BY <2>1, <2>3, Ends
<1>9. ASSUME NEW r \in Requests, Forget(r) PROVE StaysEnded(s)
  <2>1. cached'[s] \in {cached[s], Absent}
    BY <1>0, <1>9 DEF Forget, TypeOK
  <2> QED
    BY <1>0, <1>9, <2>1, EndsByGoTo DEF Forget, At, Busy, Steps
<1>10. ASSUME NEW r \in Requests, ReleaseRefreshLock(r) PROVE StaysEnded(s)
  BY <1>0, <1>10, EndsByGoTo DEF ReleaseRefreshLock, At, Busy, Steps
<1>11. ASSUME NEW r \in Requests, Respond(r) \/ ViewFails(r) \/ Kill(r) PROVE StaysEnded(s)
  BY <1>0, <1>11, EndsByLeaving DEF Respond, ViewFails, Kill
<1>12. ASSUME NEW r \in Requests, SaveRow(r) PROVE StaysEnded(s)
  <2>1. /\ Busy(r) /\ cached' = cached /\ req[r].session # s
        /\ store' = [store EXCEPT ![req[r].session] = req[r].token]
    BY <1>12 DEF SaveRow, At, Busy
  <2>2. /\ req'[r].session = req[r].session
        /\ \A q \in Requests : q # r => req'[q] = req[q]
    BY <1>0, <1>12, <2>1, GoToEffect DEF SaveRow, Steps
  <2>3. store'[s] = Absent
    BY <1>0, <2>1 DEF TypeOK
  <2> QED
    BY <2>1, <2>2, <2>3, Ends
<1>13. ASSUME NEW r \in Requests, SetEntry(r) PROVE StaysEnded(s)
  <2>1. cached'[s] = cached[s] \/ r \in Late(s)
    BY <1>0, <1>13 DEF SetEntry, TypeOK, Late, At
  <2> QED
    BY <1>0, <1>13, <2>1, EndsByLeaving DEF SetEntry
<1>14. ASSUME NEW b \in Sessions, Evict(b) PROVE StaysEnded(s)
  BY <1>0, <1>14 DEF Evict, TypeOK, StaysEnded, Late
<1>15. CASE UNCHANGED <<store, cached, req>>
  BY <1>15 DEF StaysEnded, Late
<1> QED
  BY <1>1, <1>2, <1>3, <1>4, <1>5, <1>6, <1>7, <1>8, <1>9, <1>10, <1>11, <1>12, <1>13, <1>14,
     <1>15 DEF Next, Step, Refresh, Expire, LockExpires, vars

LEMMA NoRevivalStep ==
  IInv /\ [Next]_vars =>
    [\A s \in Sessions :
       \/ store[s] # Absent
       \/ Fresh(store'[s])
       \/ /\ store'[s] = Absent
          /\ Late(s)' \subseteq Late(s)
          /\ cached'[s] \in {cached[s], Absent} \/ Late(s)' # Late(s)]_vars
<1> SUFFICES ASSUME IInv, [Next]_vars, NEW s \in Sessions, store[s] = Absent
             PROVE  Fresh(store'[s]) \/ StaysEnded(s)
  BY DEF StaysEnded
<1>1. ASSUME NEW t \in Tokens, Login(s, t) PROVE Fresh(store'[s])
  <2>1. store'[s] = t
    BY <1>1, Parts DEF Login, TypeOK
  <2> QED
    BY <1>1, <2>1 DEF Login
<1> QED
  BY <1>1, Gone

\* A session whose row was deleted never gets a row again from a request that still holds a
\* copy of it, and its entry in the cache only from the requests that were between row and
\* entry when the row went, once from each: whoever deletes the entry after them ends it for
\* good.  Nothing is assumed of CILogon, of the lock, of the workers or of the cache.
THEOREM NoRevival == Spec => SessionsDoNotRevive
  BY NoRevivalStep, IInvAlways, PTL DEF Spec, SessionsDoNotRevive

-------------------------------------------------------------------------------
(* If CILogon keeps honouring old refresh tokens and its answers arrive,   *)
(* no token dies, so no refresh is refused.                                *)

Kind == ~env.rotates /\ ~env.flaky

Benign == dead = {} /\ \A r \in Requests : req[r].pc # "idle" => req[r].token # Absent

LEMMA EnvStays == [Next]_vars => env' = env
  BY DEF Next, Login, Arrive, Fill, Step, Refresh, Associate, AcquireRefreshLock, CheckExpiry,
         RefreshSucceeds, RefreshRefused, RefreshFails, Forget, ReleaseRefreshLock, Respond,
         ViewFails, SaveRow, SetEntry, Kill, Expire, Evict, LockExpires, vars

LEMMA BenignStep == IInv /\ Kind /\ Benign /\ [Next]_vars => Benign'
<1> SUFFICES ASSUME IInv, Kind, Benign, [Next]_vars PROVE Benign'
  OBVIOUS
<1>0. TypeOK
  BY Parts
<1>1. ASSUME NEW s \in Sessions, NEW t \in Tokens, Login(s, t) PROVE Benign'
  BY <1>1 DEF Login, Issue, Benign
<1>2. ASSUME NEW r \in Requests, NEW s \in Sessions, Arrive(r, s) PROVE Benign'
  <2>1. /\ req'[r].token \in TokenOrNone
        /\ \A q \in Requests : q # r => req'[q] = req[q]
    BY <1>0, <1>2, ArriveEffect
  <2> QED
    BY <1>2, <2>1, ValueAssumption DEF Arrive, Benign, TokenOrNone
<1>3. ASSUME NEW r \in Requests, NEW pc \in Steps, Busy(r), GoTo(r, pc), UNCHANGED dead
      PROVE  Benign'
  <2>1. /\ req'[r].token = req[r].token
        /\ \A q \in Requests : q # r => req'[q] = req[q]
    BY <1>0, <1>3, GoToEffect
  <2> QED
    BY <1>3, <2>1 DEF Benign, Busy
<1>4. ASSUME NEW r \in Requests, Associate(r) \/ Forget(r) \/ SaveRow(r) PROVE Benign'
  BY <1>3, <1>4 DEF Associate, Forget, SaveRow, At, Busy, Steps
<1>5. ASSUME NEW r \in Requests, AcquireRefreshLock(r) PROVE Benign'
  BY <1>3, <1>5 DEF AcquireRefreshLock, At, Busy, Steps
<1>6. ASSUME NEW r \in Requests, CheckExpiry(r) PROVE Benign'
  <2> DEFINE pc == IF req[r].token \in expired THEN "fetch" ELSE "release"
  <2>1. pc \in Steps /\ GoTo(r, pc) /\ Busy(r) /\ UNCHANGED dead
    BY <1>6 DEF CheckExpiry, Steps, At, Busy
  <2> HIDE DEF pc
  <2> QED
    BY <1>3, <2>1
<1>7. ASSUME NEW r \in Requests, ReleaseRefreshLock(r) PROVE Benign'
  BY <1>3, <1>7 DEF ReleaseRefreshLock, At, Busy, Steps
<1>8. ASSUME NEW r \in Requests, NEW t \in Tokens, RefreshSucceeds(r, t) PROVE Benign'
  <2>1. Busy(r) /\ t \in SessionState
    BY <1>8 DEF RefreshSucceeds, At, Busy, SessionState, TokenOrNone
  <2>2. /\ req'[r].token = t
        /\ \A q \in Requests : q # r => req'[q] = req[q]
    BY <1>0, <1>8, <2>1, AnswerEffect DEF RefreshSucceeds
  <2>3. dead' = {}
    BY <1>8 DEF RefreshSucceeds, Issue, Benign, Kind
  <2>4. t # Absent
    BY ValueAssumption
  <2> QED
    BY <2>2, <2>3, <2>4 DEF Benign
<1>9. ASSUME NEW r \in Requests, Refresh(r) PROVE \E t \in Tokens : RefreshSucceeds(r, t)
  BY <1>9 DEF Refresh, RefreshRefused, RefreshFails, Benign, Kind
<1>10. ASSUME NEW r \in Requests, Respond(r) \/ ViewFails(r) \/ SetEntry(r) \/ Kill(r)
       PROVE  Benign'
  <2>1. req' = [req EXCEPT ![r] = Idle] /\ UNCHANGED dead
    BY <1>10 DEF Respond, ViewFails, SetEntry, Kill
  <2>2. Idle.pc = "idle"
    BY DEF Idle
  <2> QED
    BY <1>0, <2>1, <2>2 DEF Benign, TypeOK
<1>11. CASE UNCHANGED <<req, dead>>
  BY <1>11 DEF Benign
<1>12. ASSUME NEW r \in Requests, Fill(r) PROVE Benign'
  <2>1. PICK pc \in Onward(req[r].token) : GoTo(r, pc)
    BY <1>12 DEF Fill
  <2> QED
    BY <1>3, <1>12, <2>1 DEF Fill, At, Busy, Steps, Onward
<1> QED
  BY <1>1, <1>2, <1>4, <1>5, <1>6, <1>7, <1>8, <1>9, <1>10, <1>11, <1>12
     DEF Next, Step, Expire, Evict, LockExpires, vars

Harmless == Kind => Benign

LEMMA SurvivalStep ==
  IInv /\ Harmless /\ [Next]_vars =>
    [~env.rotates /\ ~env.flaky =>
       \A s \in Sessions : store[s] # Absent => store'[s] # Absent]_vars
<1> SUFFICES ASSUME IInv, Kind, Benign, [Next]_vars, NEW s \in Sessions, store[s] # Absent
             PROVE  store'[s] # Absent
  BY DEF Kind, Harmless
<1>0. TypeOK
  BY Parts
<1>1. ASSUME NEW b \in Sessions, NEW t \in Tokens, Login(b, t) PROVE store'[s] # Absent
  BY <1>0, <1>1, ValueAssumption DEF Login, TypeOK
<1>2. ASSUME NEW r \in Requests, SaveRow(r) PROVE store'[s] # Absent
  BY <1>0, <1>2 DEF SaveRow, TypeOK
<1>3. ASSUME NEW r \in Requests, RefreshRefused(r) PROVE FALSE
  BY <1>3 DEF RefreshRefused, Benign, Kind
<1> QED
  BY <1>1, <1>2, <1>3
     DEF Next, Step, Refresh, Arrive, Fill, Associate, AcquireRefreshLock, CheckExpiry,
         RefreshSucceeds, RefreshFails, Forget, ReleaseRefreshLock, Respond, ViewFails,
         SetEntry, Kill, Expire, Evict, LockExpires, vars

\* If CILogon keeps honouring old refresh tokens and answers, no request ends a
\* session, however requests overlap, locks expire and workers are killed.
THEOREM Survival == Spec => SessionsSurvive
<1>1. Init => Harmless
  BY DEF Init, Harmless, Benign, Idle
<1>2. IInv /\ Harmless /\ [Next]_vars => Harmless'
  BY BenignStep, EnvStays DEF Harmless, Kind
<1> QED
  BY <1>1, <1>2, SurvivalStep, IInvAlways, PTL DEF Spec, SessionsSurvive

-------------------------------------------------------------------------------
(* With requests one at a time, no kills and no failing views, what is kept *)
(* of a session or a request holds is current, unless a request has just    *)
(* replaced it and is about to save the new token.  No two sessions hold    *)
(* one token, since a refresh on behalf of one would replace that of the    *)
(* other; and a session whose row is gone is being forgotten.               *)

Orderly == env.serial /\ ~env.kills /\ ~env.breaks

Kept(s) == {store[s], cached[s]}

OneAtATime == \A r, q \in Requests : Busy(r) /\ Busy(q) => r = q

Distinct ==
  \A s, z \in Sessions, t \in Tokens : s # z /\ t \in Kept(s) => t \notin Kept(z)

Backed ==
  \A s \in Sessions : store[s] = Absent /\ cached[s] # Absent =>
    \E r \in Requests : At(r, "forget") /\ req[r].session = s

\* Where a request may have another token than its session.
Done == {"release", "view", "set"}

\* What the copy of a request holds.
Held(r) ==
  /\ req[r].token \notin replaced
  /\ \A s \in Sessions :
       s # req[r].session /\ req[r].token \in Tokens => req[r].token \notin Kept(s)
  /\ req[r].dirty => req[r].pc \in Done /\ req[r].token # Absent
  /\ req[r].token # Absent => store[req[r].session] # Absent
  /\ req[r].pc = "set" => store[req[r].session] = req[r].token

\* Some request will save another token to the session.
Stale(s) == \E r \in Requests : Busy(r) /\ req[r].dirty /\ req[r].session = s

Old(s) == \E t \in Kept(s) : t \in replaced

Current ==
  /\ OneAtATime
  /\ Distinct
  /\ Backed
  /\ \A r \in Requests : Busy(r) => Held(r)
  /\ \A s \in Sessions : Old(s) => Stale(s)

CurrentInv == Orderly => Current

\* Steps that change nothing but how far a request has come.
LEMMA CurrentQuiet ==
  ASSUME Current, UNCHANGED <<store, cached, replaced>>,
         \A r \in Requests :
           \/ req'[r] = req[r]
           \/ /\ Busy(r) /\ Busy(r)' /\ req'[r].token = req[r].token
              /\ req'[r].session = req[r].session /\ req'[r].dirty = req[r].dirty
              /\ req[r].pc # "forget" /\ req'[r].pc # "set"
              /\ req[r].pc \in Done => req'[r].pc \in Done
  PROVE  Current'
<1>1. OneAtATime' /\ Distinct'
  BY DEF Current, OneAtATime, Distinct, Kept, Busy
<1>2. Backed'
  BY DEF Current, Backed, At
<1>3. ASSUME NEW r \in Requests, Busy(r)' PROVE Held(r)'
  BY <1>3 DEF Current, Held, Kept, Busy
<1>4. ASSUME NEW s \in Sessions, Old(s)' PROVE Stale(s)'
  BY <1>4 DEF Current, Old, Kept, Stale, Busy
<1> QED
  BY <1>1, <1>2, <1>3, <1>4 DEF Current

LEMMA CurrentGoTo ==
  ASSUME TypeOK, Current, NEW r \in Requests, Busy(r), NEW pc \in Steps, GoTo(r, pc),
         req[r].pc # "forget", pc # "set", req[r].pc \in Done => pc \in Done,
         UNCHANGED <<store, cached, replaced>>
  PROVE  Current'
<1>1. /\ req'[r].pc = pc /\ req'[r].token = req[r].token
      /\ req'[r].session = req[r].session /\ req'[r].dirty = req[r].dirty
      /\ \A q \in Requests : q # r => req'[q] = req[q]
  BY GoToEffect
<1>2. Busy(r)'
  BY <1>1 DEF Busy, Steps
<1> QED
  BY <1>1, <1>2, CurrentQuiet

LEMMA CurrentLogin ==
  ASSUME TypeOK, Current, NEW s \in Sessions, NEW t \in Tokens, Login(s, t)
  PROVE  Current'
<1>1. /\ store' = [store EXCEPT ![s] = t] /\ cached' = [cached EXCEPT ![s] = t]
      /\ req' = req /\ store[s] = Absent
      /\ t \notin Known /\ replaced' = replaced \cap Known
      /\ \A r \in Requests : Busy(r) => req[r].session # s
  BY DEF Login, Fresh, Issue
<1>2. \A z \in Sessions : z # s => Kept(z)' = Kept(z) /\ t \notin Kept(z)
  BY <1>1 DEF TypeOK, Known, Kept
<1>3. Kept(s)' = {t} /\ store'[s] = t /\ cached'[s] = t /\ t # Absent
  BY <1>1, ValueAssumption DEF TypeOK, Kept
<1>4. \A z \in Sessions : z # s => store'[z] = store[z] /\ cached'[z] = cached[z]
  BY <1>1 DEF TypeOK
<1>5. \A r \in Requests : Busy(r) => req[r].token # t
  BY <1>1 DEF Known
<1>6. OneAtATime' /\ Distinct'
  BY <1>1, <1>2, <1>3 DEF Current, OneAtATime, Distinct, Busy
<1>7. Backed'
  BY <1>1, <1>3, <1>4 DEF Current, Backed, At
<1>8. ASSUME NEW r \in Requests, Busy(r)' PROVE Held(r)'
  <2>1. Busy(r) /\ Held(r)
    BY <1>1, <1>8 DEF Busy, Current
  <2>2. store'[req[r].session] = store[req[r].session]
    BY <1>1, <2>1 DEF TypeOK
  <2> QED
    BY <1>1, <1>2, <1>3, <1>5, <2>1, <2>2 DEF Held
<1>9. ASSUME NEW z \in Sessions, Old(z)' PROVE Stale(z)'
  <2>1. z # s
    BY <1>1, <1>3, <1>9 DEF Old
  <2>2. Stale(z)
    BY <1>1, <1>2, <1>9, <2>1 DEF Old, Current
  <2> QED
    BY <1>1, <2>2 DEF Stale, Busy
<1> QED
  BY <1>6, <1>7, <1>8, <1>9 DEF Current

LEMMA CurrentArrive ==
  ASSUME TypeOK, Current, env.serial, NEW r \in Requests, NEW s \in Sessions, Arrive(r, s)
  PROVE  Current'
<1>1. /\ req'[r].session = s /\ req'[r].token = Seen(s) /\ req'[r].dirty = FALSE
      /\ req'[r].pc # "set"
      /\ \A q \in Requests : q # r => req'[q] = req[q]
  BY ArriveEffect
<1>2. /\ UNCHANGED <<store, cached, replaced>> /\ \A q \in Requests : ~Busy(q)
      /\ Seen(s) # Absent
  BY DEF Arrive
<1>3. \A q \in Requests : q # r => ~Busy(q)'
  BY <1>1, <1>2 DEF Busy
<1>4. \A z \in Sessions : ~Old(z)
  BY <1>2 DEF Current, Stale
<1>5. \A z \in Sessions : store[z] = Absent => cached[z] = Absent
  BY <1>2 DEF Current, Backed, At, Busy
<1>6. Seen(s) \in Kept(s) /\ store[s] # Absent
  BY <1>2, <1>5 DEF Seen, Kept
<1>7. OneAtATime' /\ Distinct' /\ Backed'
  BY <1>2, <1>3, <1>5 DEF Current, OneAtATime, Distinct, Kept, Backed
<1>8. Held(r)'
  <2>1. req'[r].token \notin replaced'
    BY <1>1, <1>2, <1>4, <1>6 DEF Old
  <2>2. \A z \in Sessions : z # s /\ Seen(s) \in Tokens => Seen(s) \notin Kept(z)
    BY <1>6 DEF Current, Distinct
  <2> QED
    BY <1>1, <1>2, <1>6, <2>1, <2>2 DEF Held, Kept
<1>9. \A z \in Sessions : ~Old(z)'
  BY <1>2, <1>4 DEF Old, Kept
<1> QED
  BY <1>3, <1>7, <1>8, <1>9 DEF Current

LEMMA CurrentFill ==
  ASSUME IInv, Current, NEW r \in Requests, Fill(r) PROVE Current'
<1>1. /\ TypeOK /\ Busy(r) /\ req[r].pc = "fill" /\ req[r].token \in TokenOrNone
      /\ req[r] \in Working
  BY Parts, Cases DEF Fill, At, Busy, Carries, Sound
<1>0. PICK s \in Sessions : s = req[r].session
  BY <1>1 DEF Working
<1>2. PICK pc \in Onward(req[r].token) : GoTo(r, pc)
  BY <1>0 DEF Fill
<1>3. /\ req'[r].pc \in {"view", "associate"} /\ req'[r].token = req[r].token
      /\ req'[r].session = s /\ req'[r].dirty = req[r].dirty
      /\ \A q \in Requests : q # r => req'[q] = req[q]
  BY <1>0, <1>1, <1>2, GoToEffect DEF Onward, Steps
<1>4. /\ UNCHANGED <<store, replaced>> /\ cached' = [cached EXCEPT ![s] = req[r].token]
      /\ s \in Sessions
  BY <1>0, <1>1 DEF Fill, Working
<1>5. /\ \A z \in Sessions : z # s => cached'[z] = cached[z]
      /\ cached'[s] = req[r].token
  BY <1>0, <1>1, <1>4 DEF TypeOK
<1>6. Held(r) /\ ~req[r].dirty /\ req[r].token # Absent /\ store[s] # Absent
  <2>1. Held(r) /\ req[r].token # Absent
    BY <1>0, <1>1, ValueAssumption DEF Current, TokenOrNone
  <2> QED
    BY <1>0, <1>1, <2>1 DEF Held, Done
<1>7. \A q \in Requests : q # r => ~Busy(q) /\ ~Busy(q)'
  BY <1>0, <1>1, <1>3 DEF Current, OneAtATime, Busy
<1>8. \A z \in Sessions : ~Old(z)
  BY <1>0, <1>6, <1>7 DEF Current, Stale
<1>9. /\ \A z \in Sessions : z # s => Kept(z)' = Kept(z)
      /\ Kept(s)' = {store[s], req[r].token}
  BY <1>0, <1>4, <1>5 DEF Kept
<1>10. Distinct'
  BY <1>0, <1>6, <1>9 DEF Current, Distinct, Held, Kept
<1>11. Backed'
  <2>1. \A z \in Sessions : store[z] = Absent => cached[z] = Absent
    BY <1>0, <1>1, <1>7 DEF Current, Backed, At, Busy
  <2> QED
    BY <1>0, <1>4, <1>5, <1>6, <2>1 DEF Backed
<1>12. OneAtATime'
  BY <1>0, <1>7 DEF OneAtATime
<1>13. Held(r)'
  BY <1>0, <1>3, <1>4, <1>6, <1>9 DEF Held
<1>14. \A z \in Sessions : ~Old(z)'
  BY <1>0, <1>4, <1>6, <1>8, <1>9 DEF Old, Held, Kept
<1> QED
  BY <1>0, <1>7, <1>10, <1>11, <1>12, <1>13, <1>14 DEF Current

LEMMA CurrentSucceeds ==
  ASSUME IInv, Current, NEW r \in Requests, NEW t \in Tokens, RefreshSucceeds(r, t)
  PROVE  Current'
<1> DEFINE old == req[r].token
<1>1. TypeOK /\ Busy(r) /\ old \in Tokens /\ req[r].pc = "fetch"
  BY DEF IInv, Carries, Sound, RefreshSucceeds, At, Busy, Early
<1>2. req[r] \in Working
  BY <1>1, Cases
<1>3. /\ UNCHANGED <<store, cached>> /\ t \notin Known
      /\ replaced' = (replaced \cap Known) \cup {old}
  BY DEF RefreshSucceeds, Fresh, Issue
<1>4. /\ req'[r].pc = "release" /\ req'[r].token = t /\ req'[r].dirty = TRUE
      /\ req'[r].session = req[r].session
      /\ \A q \in Requests : q # r => req'[q] = req[q]
  BY <1>1, AnswerEffect DEF RefreshSucceeds, SessionState, TokenOrNone
<1>5. \A q \in Requests : q # r => ~Busy(q) /\ ~Busy(q)'
  BY <1>1, <1>4 DEF Current, OneAtATime, Busy
<1>6. old \in Known /\ \A s \in Sessions : Kept(s) \subseteq Known
  BY <1>1 DEF Known, Kept
<1>7. OneAtATime' /\ Distinct'
  BY <1>3, <1>5 DEF Current, OneAtATime, Distinct, Kept
<1>8. Backed'
  <2>1. \A q \in Requests : ~At(q, "forget")
    BY <1>1, <1>5 DEF At, Busy
  <2> QED
    BY <1>3, <2>1 DEF Current, Backed
<1>9. store[req[r].session] # Absent
  BY <1>1, ValueAssumption DEF Current, Held
<1>10. Held(r)'
  <2>1. \A s \in Sessions : Kept(s)' = Kept(s)
    BY <1>3 DEF Kept
  <2> QED
    BY <1>3, <1>4, <1>6, <1>9, <2>1, ValueAssumption DEF Held, Done
<1>11. ASSUME NEW s \in Sessions, Old(s)' PROVE Stale(s)'
  <2>1. Busy(r)'
    BY <1>4 DEF Busy
  <2>2. CASE s = req[r].session
    BY <1>4, <2>1, <2>2 DEF Stale
  <2>3. CASE s # req[r].session
    <3>1. old \notin Kept(s) /\ ~req[r].dirty
      BY <1>1, <2>3 DEF Current, Held, Done
    <3>2. Old(s)
      BY <1>3, <1>11, <3>1 DEF Old, Kept
    <3> QED
      BY <1>5, <3>1, <3>2 DEF Current, Stale
  <2> QED
    BY <2>2, <2>3
<1> QED
  BY <1>5, <1>7, <1>8, <1>10, <1>11 DEF Current

LEMMA CurrentRefused ==
  ASSUME IInv, Current, NEW r \in Requests, RefreshRefused(r) PROVE Current'
<1> DEFINE s == req[r].session
<1>1. TypeOK /\ Busy(r) /\ req[r].pc = "fetch"
  BY DEF IInv, RefreshRefused, At, Busy
<1>2. req[r] \in Working /\ ~req[r].dirty /\ s \in Sessions
  BY <1>1, Cases DEF Current, Held, Done, Working
<1>3. UNCHANGED <<cached, replaced>> /\ store' = [store EXCEPT ![s] = Absent]
  BY DEF RefreshRefused
<1>4. /\ req'[r].pc = "forget" /\ req'[r].token = Absent /\ ~req'[r].dirty
      /\ req'[r].session = s
      /\ \A q \in Requests : q # r => req'[q] = req[q]
  BY <1>1, <1>2, FlushEffect DEF RefreshRefused
<1>5. \A q \in Requests : q # r => ~Busy(q) /\ ~Busy(q)'
  BY <1>1, <1>4 DEF Current, OneAtATime, Busy
<1>6. Absent \notin replaced /\ Absent \notin Tokens
  BY <1>1, ValueAssumption DEF TypeOK
<1>7. /\ \A z \in Sessions : z # s => store'[z] = store[z]
      /\ \A z \in Sessions : Kept(z)' \subseteq Kept(z) \cup {Absent}
  BY <1>1, <1>3 DEF TypeOK, Kept
<1>8. OneAtATime' /\ Distinct'
  BY <1>5, <1>6, <1>7 DEF Current, OneAtATime, Distinct
<1>9. Backed'
  <2>1. \A z \in Sessions : store[z] = Absent => cached[z] = Absent
    BY <1>1, <1>5 DEF Current, Backed, At, Busy
  <2>2. At(r, "forget")'
    BY <1>4 DEF At
  <2> QED
    BY <1>3, <1>4, <1>7, <2>1, <2>2 DEF Backed
<1>10. Held(r)'
  BY <1>3, <1>4, <1>6 DEF Held
<1>11. \A z \in Sessions : ~Old(z)
  BY <1>2, <1>5 DEF Current, Stale
<1>12. \A z \in Sessions : ~Old(z)'
  BY <1>3, <1>6, <1>7, <1>11 DEF Old
<1> QED
  BY <1>5, <1>8, <1>9, <1>10, <1>12 DEF Current

LEMMA CurrentForget ==
  ASSUME IInv, Current, NEW r \in Requests, Forget(r) PROVE Current'
<1> DEFINE s == req[r].session
<1>1. TypeOK /\ Busy(r) /\ req[r].pc = "forget"
  BY DEF IInv, Forget, At, Busy
<1>2. req[r] \in Working /\ Held(r) /\ ~req[r].dirty /\ s \in Sessions
  BY <1>1, Cases DEF Current, Held, Done, Working
<1>3. UNCHANGED <<store, replaced>> /\ cached' = [cached EXCEPT ![s] = Absent]
  BY DEF Forget
<1>4. /\ req'[r].pc = "release" /\ req'[r].token = req[r].token
      /\ req'[r].session = s /\ req'[r].dirty = req[r].dirty
      /\ \A q \in Requests : q # r => req'[q] = req[q]
  BY <1>1, GoToEffect DEF Forget, Steps
<1>5. \A q \in Requests : q # r => ~Busy(q) /\ ~Busy(q)'
  BY <1>1, <1>4 DEF Current, OneAtATime, Busy
<1>6. Absent \notin replaced /\ Absent \notin Tokens
  BY <1>1, ValueAssumption DEF TypeOK
<1>7. /\ \A z \in Sessions : z # s => cached'[z] = cached[z]
      /\ cached'[s] = Absent
      /\ \A z \in Sessions : Kept(z)' \subseteq Kept(z) \cup {Absent}
  BY <1>1, <1>2, <1>3 DEF TypeOK, Kept
<1>8. OneAtATime' /\ Distinct'
  BY <1>5, <1>6, <1>7 DEF Current, OneAtATime, Distinct
<1>9. Backed'
  <2>1. \A z \in Sessions : z # s /\ store[z] = Absent => cached[z] = Absent
    BY <1>5 DEF Current, Backed, At, Busy
  <2> QED
    BY <1>3, <1>7, <2>1 DEF Backed
<1>10. Held(r)'
  BY <1>2, <1>3, <1>4, <1>6, <1>7 DEF Held
<1>11. \A z \in Sessions : ~Old(z)
  BY <1>2, <1>5 DEF Current, Stale
<1>12. \A z \in Sessions : ~Old(z)'
  BY <1>3, <1>6, <1>7, <1>11 DEF Old
<1> QED
  BY <1>5, <1>8, <1>9, <1>10, <1>12 DEF Current

LEMMA CurrentFails ==
  ASSUME IInv, Current, NEW r \in Requests, RefreshFails(r) PROVE Current'
<1>1. TypeOK /\ Busy(r) /\ req[r].pc = "fetch" /\ req[r].token \in Tokens
  BY DEF IInv, RefreshFails, At, Busy, Carries, Sound, Early
<1>2. Held(r) /\ ~req[r].dirty /\ store[req[r].session] # Absent
  BY <1>1, ValueAssumption DEF Current, Held, Done
<1>3. UNCHANGED <<store, cached, replaced>>
  BY DEF RefreshFails
<1>4. /\ req'[r].pc = "release" /\ req'[r].token = NoToken
      /\ req'[r].session = req[r].session
      /\ \A q \in Requests : q # r => req'[q] = req[q]
  BY <1>1, AnswerEffect DEF RefreshFails, SessionState, TokenOrNone
<1>5. \A q \in Requests : q # r => ~Busy(q) /\ ~Busy(q)'
  BY <1>1, <1>4 DEF Current, OneAtATime, Busy
<1>6. NoToken \notin replaced /\ NoToken \notin Tokens /\ NoToken # Absent
  BY <1>1, ValueAssumption DEF TypeOK
<1>7. OneAtATime' /\ Distinct'
  BY <1>3, <1>5 DEF Current, OneAtATime, Distinct, Kept
<1>8. Backed'
  <2>1. \A q \in Requests : ~At(q, "forget")
    BY <1>1, <1>5 DEF At, Busy
  <2> QED
    BY <1>3, <2>1 DEF Current, Backed
<1>9. Held(r)'
  BY <1>2, <1>3, <1>4, <1>6 DEF Held, Done
<1>10. \A s \in Sessions : ~Old(s)'
  BY <1>2, <1>3, <1>5 DEF Current, Stale, Old, Kept
<1> QED
  BY <1>5, <1>7, <1>8, <1>9, <1>10 DEF Current

LEMMA CurrentRespond ==
  ASSUME TypeOK, Current, NEW r \in Requests, Respond(r) PROVE Current'
<1>1. Busy(r) /\ Held(r) /\ ~req[r].dirty /\ req[r].pc = "view"
  BY DEF Respond, At, Busy, Current, Held
<1>2. req' = [req EXCEPT ![r] = Idle] /\ UNCHANGED <<store, cached, replaced>>
  BY DEF Respond
<1>3. \A q \in Requests : q # r => ~Busy(q)
  BY <1>1 DEF Current, OneAtATime
<1>4. \A q \in Requests : ~Busy(q)'
  BY <1>2, <1>3 DEF TypeOK, Busy, Idle
<1>5. \A s \in Sessions : ~Old(s)'
  BY <1>1, <1>2, <1>3 DEF Current, Stale, Old, Kept
<1>6. Distinct' /\ OneAtATime'
  BY <1>2, <1>4 DEF Current, Distinct, OneAtATime, Kept
<1>7. Backed'
  BY <1>1, <1>2, <1>3 DEF Current, Backed, At, Busy
<1> QED
  BY <1>4, <1>5, <1>6, <1>7 DEF Current

LEMMA CurrentSaveRow ==
  ASSUME TypeOK, Current, NEW r \in Requests, SaveRow(r) PROVE Current'
<1>1. /\ Busy(r) /\ Held(r) /\ req[r].pc = "view" /\ req[r].token # Absent
      /\ req[r] \in Working
  BY Cases DEF SaveRow, At, Busy, Current
<1>0. PICK s \in Sessions : s = req[r].session
  BY <1>1 DEF Working
<1>2. /\ UNCHANGED <<cached, replaced>> /\ store' = [store EXCEPT ![s] = req[r].token]
      /\ s \in Sessions
  BY <1>0, <1>1 DEF SaveRow, Working
<1>3. /\ req'[r].pc = "set" /\ req'[r].token = req[r].token
      /\ req'[r].session = s /\ req'[r].dirty = req[r].dirty
      /\ \A q \in Requests : q # r => req'[q] = req[q]
  BY <1>0, <1>1, GoToEffect DEF SaveRow, Steps
<1>4. \A q \in Requests : q # r => ~Busy(q) /\ ~Busy(q)'
  BY <1>0, <1>1, <1>3 DEF Current, OneAtATime, Busy
<1>5. /\ \A z \in Sessions : z # s => store'[z] = store[z]
      /\ store'[s] = req[r].token
  BY <1>0, <1>2 DEF TypeOK
<1>6. /\ \A z \in Sessions : z # s => Kept(z)' = Kept(z)
      /\ Kept(s)' = {req[r].token, cached[s]}
  BY <1>0, <1>2, <1>5 DEF Kept
<1>7. OneAtATime' /\ Distinct'
  BY <1>0, <1>1, <1>4, <1>6 DEF Current, OneAtATime, Distinct, Held, Kept
<1>8. Backed'
  <2>1. \A z \in Sessions : z # s /\ store[z] = Absent => cached[z] = Absent
    BY <1>0, <1>1, <1>4 DEF Current, Backed, At, Busy
  <2> QED
    BY <1>0, <1>1, <1>2, <1>5, <2>1 DEF Backed
<1>9. Held(r)'
  BY <1>0, <1>1, <1>2, <1>3, <1>5, <1>6 DEF Held, Done
<1>10. ASSUME NEW z \in Sessions, Old(z)' PROVE Stale(z)'
  <2>1. Old(z)
    BY <1>0, <1>1, <1>2, <1>6, <1>10 DEF Old, Held, Kept
  <2>2. z = s /\ req[r].dirty
    BY <1>0, <1>4, <2>1 DEF Current, Stale
  <2>3. Busy(r)'
    BY <1>0, <1>3 DEF Busy
  <2> QED
    BY <1>0, <1>3, <2>2, <2>3 DEF Stale
<1> QED
  BY <1>0, <1>4, <1>7, <1>8, <1>9, <1>10 DEF Current

LEMMA CurrentSetEntry ==
  ASSUME IInv, Current, NEW r \in Requests, SetEntry(r) PROVE Current'
<1>1. /\ TypeOK /\ Busy(r) /\ Held(r) /\ req[r].pc = "set" /\ req[r] \in Working
  BY Parts, Cases DEF SetEntry, At, Busy, Current
<1>0. PICK s \in Sessions : s = req[r].session
  BY <1>1 DEF Working
<1>2. req[r].token # Absent /\ store[s] = req[r].token /\ s \in Sessions
  BY <1>0, <1>1, Parts, ValueAssumption DEF Carries, Sound, TokenOrNone, Held, Working
<1>3. /\ UNCHANGED <<store, replaced>> /\ cached' = [cached EXCEPT ![s] = req[r].token]
      /\ req' = [req EXCEPT ![r] = Idle]
  BY <1>0 DEF SetEntry
<1>4. \A q \in Requests : q # r => ~Busy(q)
  BY <1>0, <1>1 DEF Current, OneAtATime
<1>5. \A q \in Requests : ~Busy(q)'
  BY <1>0, <1>1, <1>3, <1>4 DEF TypeOK, Busy, Idle
<1>6. /\ \A z \in Sessions : z # s => Kept(z)' = Kept(z) /\ cached'[z] = cached[z]
      /\ Kept(s)' = {req[r].token}
  BY <1>0, <1>1, <1>2, <1>3 DEF Kept, TypeOK
<1>7. OneAtATime' /\ Distinct'
  BY <1>0, <1>1, <1>5, <1>6 DEF Current, OneAtATime, Distinct, Held
<1>8. Backed'
  <2>1. \A z \in Sessions : z # s /\ store[z] = Absent => cached[z] = Absent
    BY <1>0, <1>1, <1>4 DEF Current, Backed, At, Busy
  <2> QED
    BY <1>0, <1>2, <1>3, <1>6, <2>1 DEF Backed
<1>9. ASSUME NEW z \in Sessions, Old(z)' PROVE FALSE
  <2>1. z # s
    BY <1>0, <1>1, <1>3, <1>6, <1>9 DEF Old, Held
  <2>2. Old(z)
    BY <1>0, <1>3, <1>6, <1>9, <2>1 DEF Old
  <2> QED
    BY <1>0, <1>4, <2>1, <2>2 DEF Current, Stale
<1> QED
  BY <1>0, <1>5, <1>7, <1>8, <1>9 DEF Current

LEMMA CurrentEvict ==
  ASSUME TypeOK, Current, NEW s \in Sessions, Evict(s) PROVE Current'
<1>1. UNCHANGED <<store, replaced, req>> /\ cached' = [cached EXCEPT ![s] = Absent]
  BY DEF Evict
<1>2. Absent \notin replaced /\ Absent \notin Tokens
  BY ValueAssumption DEF TypeOK
<1>3. \A z \in Sessions : /\ Kept(z)' \subseteq Kept(z) \cup {Absent}
                          /\ cached'[z] \in {cached[z], Absent}
  BY <1>1 DEF TypeOK, Kept
<1>4. OneAtATime' /\ Distinct' /\ Backed'
  BY <1>1, <1>2, <1>3 DEF Current, OneAtATime, Distinct, Backed, Busy, At
<1>5. ASSUME NEW r \in Requests, Busy(r)' PROVE Held(r)'
  BY <1>1, <1>2, <1>3, <1>5 DEF Current, Held, Busy
<1>6. ASSUME NEW z \in Sessions, Old(z)' PROVE Stale(z)'
  BY <1>1, <1>2, <1>3, <1>6 DEF Current, Old, Stale, Busy
<1> QED
  BY <1>4, <1>5, <1>6 DEF Current

LEMMA CurrentStep == IInv /\ CurrentInv /\ [Next]_vars => CurrentInv'
<1> SUFFICES ASSUME IInv, Orderly, Current, [Next]_vars PROVE Current'
  BY EnvStays DEF CurrentInv, Orderly
<1>0. TypeOK /\ env.serial
  BY Parts DEF Orderly
<1>1. ASSUME NEW r \in Requests, Associate(r) PROVE Current'
  BY <1>0, <1>1, CurrentGoTo DEF Associate, At, Busy, Steps, Done
<1>2. ASSUME NEW r \in Requests, AcquireRefreshLock(r) PROVE Current'
  <2>1. Busy(r) /\ req[r].pc = "lock" /\ UNCHANGED <<store, cached, replaced>>
    BY <1>2 DEF AcquireRefreshLock, At, Busy
  <2>2. GoTo(r, "check") \/ GoTo(r, "view")
    BY <1>2 DEF AcquireRefreshLock
  <2> QED
    BY <1>0, <2>1, <2>2, CurrentGoTo DEF Steps, Done
<1>3. ASSUME NEW r \in Requests, CheckExpiry(r) PROVE Current'
  <2>1. Busy(r) /\ req[r].pc = "check" /\ UNCHANGED <<store, cached, replaced>>
    BY <1>3 DEF CheckExpiry, At, Busy
  <2>2. PICK pc \in {"fetch", "release"} : GoTo(r, pc)
    BY <1>3 DEF CheckExpiry
  <2> QED
    BY <1>0, <2>1, <2>2, CurrentGoTo DEF Steps, Done
<1>4. ASSUME NEW r \in Requests, ReleaseRefreshLock(r) PROVE Current'
  BY <1>0, <1>4, CurrentGoTo DEF ReleaseRefreshLock, At, Busy, Steps, Done
<1>5. CASE UNCHANGED <<store, cached, replaced, req>>
  BY <1>5, CurrentQuiet
<1>6. ASSUME NEW r \in Requests, Kill(r) \/ ViewFails(r) PROVE FALSE
  BY <1>6 DEF Kill, ViewFails, Orderly
<1>7. ASSUME NEW r \in Requests, Refresh(r) PROVE Current'
  BY <1>7, CurrentSucceeds, CurrentRefused, CurrentFails DEF Refresh
<1> QED
  BY <1>0, <1>1, <1>2, <1>3, <1>4, <1>5, <1>6, <1>7, CurrentLogin, CurrentArrive, CurrentFill,
     CurrentForget, CurrentRespond, CurrentSaveRow, CurrentSetEntry, CurrentEvict
     DEF Next, Step, Expire, LockExpires, vars

\* With requests one at a time, no kills and no failing views, a session at rest holds the
\* latest token of its browser in the database and in the cache, whatever CILogon answers,
\* however slow it is, and whatever the cache forgets.
THEOREM HoldsCurrent == Spec => []SessionsHoldCurrentToken
<1>1. Init => CurrentInv
  <2> SUFFICES ASSUME Init PROVE Current
    BY DEF CurrentInv
  <2>1. \A r \in Requests : ~Busy(r)
    BY DEF Init, Busy, Idle
  <2>2. \A s \in Sessions : store[s] = Absent /\ cached[s] = Absent
    BY DEF Init
  <2>3. replaced = {} /\ Absent \notin Tokens
    BY ValueAssumption DEF Init
  <2> QED
    BY <2>1, <2>2, <2>3 DEF Current, OneAtATime, Distinct, Backed, Kept, Old
<1>2. CurrentInv => SessionsHoldCurrentToken
  BY DEF CurrentInv, Orderly, Current, Stale, Old, Kept, SessionsHoldCurrentToken
<1> QED
  BY <1>1, <1>2, CurrentStep, IInvAlways, PTL DEF Spec

-------------------------------------------------------------------------------
\* No lock is left behind.
NoneLeft == ~env.slow /\ ~env.kills => lock = Free \/ (lock \in Requests /\ Holding(lock))

LEMMA LockGoesStep ==
  ASSUME IInv, NoneLeft, [Next]_vars PROVE NoneLeft'
<1> SUFFICES ASSUME ~env.slow, ~env.kills, lock' # Free
             PROVE  lock' \in Requests /\ Holding(lock)'
  BY EnvStays DEF NoneLeft
<1>1. TypeOK
  BY Parts
<1>2. CASE UNCHANGED <<lock, req>>
  BY <1>2 DEF NoneLeft, Holding
<1>3. ASSUME NEW r \in Requests, NEW s \in Sessions, Arrive(r, s)
      PROVE  lock' \in Requests /\ Holding(lock)'
  <2>1. lock' = lock /\ ~Holding(r) /\ \A q \in Requests : q # r => req'[q] = req[q]
    BY <1>1, <1>3, ArriveEffect DEF Arrive, Busy, Holding
  <2> QED
    BY <2>1 DEF NoneLeft, Holding
<1>4. ASSUME NEW r \in Requests,
             \/ Fill(r) \/ Associate(r) \/ Respond(r) \/ ViewFails(r) \/ SaveRow(r) \/ SetEntry(r)
      PROVE  lock' \in Requests /\ Holding(lock)'
  <2>1. lock' = lock /\ ~Holding(r) /\ \A q \in Requests : q # r => req'[q] = req[q]
    BY <1>1, <1>4 DEF Fill, Associate, Respond, ViewFails, SaveRow, SetEntry, At, GoTo,
                      Holding, TypeOK
  <2> QED
    BY <2>1 DEF NoneLeft, Holding
<1>5. ASSUME NEW r \in Requests, AcquireRefreshLock(r)
      PROVE  lock' \in Requests /\ Holding(lock)'
  <2>1. Busy(r) /\ ~Holding(r)
    BY <1>5 DEF AcquireRefreshLock, At, Busy, Holding
  <2>2. \A q \in Requests : q # r => req'[q] = req[q]
    BY <1>1, <1>5 DEF AcquireRefreshLock, GoTo, TypeOK
  <2>3. CASE lock = Free /\ lock' = r /\ GoTo(r, "check")
    <3>1. req'[r].pc = "check"
      BY <1>1, <2>1, <2>3, GoToEffect DEF Steps
    <3> QED
      BY <2>3, <3>1 DEF Holding
  <2>4. CASE lock' = lock
    BY <2>1, <2>2, <2>4 DEF NoneLeft, Holding
  <2> QED
    BY <1>5, <2>3, <2>4 DEF AcquireRefreshLock
<1>6. ASSUME NEW r \in Requests, CheckExpiry(r)
      PROVE  lock' \in Requests /\ Holding(lock)'
  <2>1. Busy(r) /\ lock' = lock
    BY <1>6 DEF CheckExpiry, At, Busy
  <2>2. PICK pc \in {"fetch", "release"} : GoTo(r, pc)
    BY <1>6 DEF CheckExpiry
  <2>3. req'[r].pc = pc /\ \A q \in Requests : q # r => req'[q] = req[q]
    BY <1>1, <2>1, <2>2, GoToEffect DEF Steps
  <2> QED
    BY <2>1, <2>3 DEF NoneLeft, Holding
<1>7. ASSUME NEW r \in Requests, Refresh(r)
      PROVE  lock' \in Requests /\ Holding(lock)'
  <2>1. Busy(r) /\ lock' = lock
    BY <1>7 DEF Refresh, RefreshRefused, RefreshFails, RefreshSucceeds, At, Busy
  <2>2. /\ req'[r].pc \in {"release", "forget"}
        /\ \A q \in Requests : q # r => req'[q] = req[q]
    <3>1. CASE RefreshRefused(r)
      BY <1>1, <2>1, <3>1, FlushEffect DEF RefreshRefused
    <3>2. CASE RefreshFails(r)
      BY <1>1, <2>1, <3>2, AnswerEffect DEF RefreshFails, SessionState, TokenOrNone
    <3>3. ASSUME NEW t \in Tokens, RefreshSucceeds(r, t)
          PROVE  req'[r].pc = "release" /\ \A q \in Requests : q # r => req'[q] = req[q]
      BY <1>1, <2>1, <3>3, AnswerEffect DEF RefreshSucceeds, SessionState, TokenOrNone
    <3> QED
      BY <1>7, <3>1, <3>2, <3>3 DEF Refresh
  <2> QED
    BY <2>1, <2>2 DEF NoneLeft, Holding
<1>9. ASSUME NEW r \in Requests, Forget(r)
      PROVE  lock' \in Requests /\ Holding(lock)'
  <2>1. Busy(r) /\ lock' = lock
    BY <1>9 DEF Forget, At, Busy
  <2>2. req'[r].pc = "release" /\ \A q \in Requests : q # r => req'[q] = req[q]
    BY <1>1, <1>9, <2>1, GoToEffect DEF Forget, Steps
  <2> QED
    BY <2>1, <2>2 DEF NoneLeft, Holding
<1>8. ASSUME NEW r \in Requests, ReleaseRefreshLock(r) \/ Kill(r) \/ LockExpires PROVE FALSE
  BY <1>8 DEF ReleaseRefreshLock, Kill, LockExpires
<1> QED
  BY <1>2, <1>3, <1>4, <1>5, <1>6, <1>7, <1>8, <1>9
  DEF Next, Step, Login, Expire, Evict, LockExpires, vars

\* While no refresh outlasts the lock and no worker is killed, a request holds the lock
\* exactly from acquire_refresh_lock to release_refresh_lock, whatever CILogon answers and
\* however many requests there are: no lock is left behind, and none is released by another.
THEOREM LockIsReleased == Spec => []LockGoesWithRefresh
<1>1. IInv /\ NoneLeft /\ [Next]_vars => IInv' /\ NoneLeft'
  BY IInvStep, LockGoesStep
<1>2. Init => NoneLeft
  BY DEF Init, NoneLeft
<1>3. IInv /\ NoneLeft => LockGoesWithRefresh
  BY ValueAssumption DEF IInv, HolderAdded, NoneLeft, LockGoesWithRefresh
<1> QED
  BY IInvInit, <1>1, <1>2, <1>3, PTL DEF Spec
===============================================================================
