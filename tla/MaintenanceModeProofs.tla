------------------------- MODULE MaintenanceModeProofs -------------------------
(* What TLAPS proves about MaintenanceMode, for any number of              *)
(* administrators, visits and states of the switch.                        *)
EXTENDS MaintenanceMode, TLAPS

-------------------------------------------------------------------------------
(* Types.                                                                  *)

Asking == [at : {"get", "load"}, visit : Visits, page : BOOLEAN, state : {None},
           seen : SUBSET States]
Answered == [at : {"fill", "told"}, visit : Visits, page : BOOLEAN, state : States,
             seen : SUBSET States]

\* What a request in the middle of get_state carries.
LEMMA Shapes ==
  ASSUME NEW v \in RequestState
  PROVE  /\ v.at \in {"idle", "away", "get", "load", "fill", "told"}
         /\ v.at \in {"get", "load"} => v \in Asking
         /\ v.at \in {"fill", "told"} => v \in Answered
         /\ v.at = "away" => v \in [at : {"away"}, visit : Visits]
         /\ v.at = "idle" <=> v = Idle
BY DEF RequestState, Asking, Answered, Idle

LEMMA AdminShapes ==
  ASSUME NEW v \in AdminState
  PROVE  /\ v.at \in {"idle", "mirror", "commit"}
         /\ v.at = "idle" <=> v = Idle
         /\ v # Idle => v \in [at : {"mirror", "commit"}, state : States]
BY DEF AdminState, Idle

LEMMA InForceTypes == TypeOK => InForce \subseteq States
<1> SUFFICES ASSUME TypeOK PROVE InForce \subseteq States
  OBVIOUS
<1>1. Pending \subseteq States
  BY AdminShapes DEF TypeOK, Pending
<1> QED BY <1>1 DEF InForce, TypeOK

\* Every step keeps the types.
LEMMA StepTypes == TypeOK /\ [Next]_vars => TypeOK'
<1> SUFFICES ASSUME TypeOK, [Next]_vars PROVE TypeOK'
  OBVIOUS
<1> USE StatesAssumption
<1>1. ASSUME NEW a \in Admins, Administer(a) PROVE TypeOK'
  <2>1. ASSUME NEW s \in States, SaveRow(a, s) PROVE TypeOK'
    <3>1. admin' \in [Admins -> AdminState]
      BY <2>1 DEF TypeOK, SaveRow, AdminGoesTo, AdminState
    <3>2. ASSUME NEW r \in Requests
          PROVE  request[r].at \in {"idle", "away"} \/
                   [request[r] EXCEPT !.seen = @ \cup {s}] \in RequestState
      <4>1. request[r] \in RequestState
        BY DEF TypeOK
      <4>2. CASE request[r] \in Asking
        BY <4>2 DEF Asking, RequestState
      <4>3. CASE request[r] \in Answered
        BY <4>3 DEF Answered, RequestState
      <4> QED BY <4>1, <4>2, <4>3, Shapes
    <3>3. request' \in [Requests -> RequestState]
      BY <2>1, <3>2 DEF TypeOK, SaveRow
    <3> QED BY <2>1, <3>1, <3>3 DEF TypeOK, SaveRow
  <2>2. CASE WriteMirror(a)
    <3>1. admin[a] \in [at : {"mirror", "commit"}, state : States]
      BY <2>2, AdminShapes DEF TypeOK, WriteMirror, Idle
    <3>2. [admin[a] EXCEPT !.at = "commit"] \in AdminState
      BY <3>1 DEF AdminState
    <3> QED BY <2>2, <3>1, <3>2 DEF TypeOK, WriteMirror, AdminGoesTo
  <2>3. CASE Commit(a)
    <3>1. admin[a].state \in States
      BY <2>3, AdminShapes DEF TypeOK, Commit, Idle
    <3> QED BY <2>3, <3>1 DEF TypeOK, Commit, AdminGoesTo, AdminState
  <2>4. CASE RollBack(a)
    <3>1. admin[a].state \in States
      BY <2>4, AdminShapes DEF TypeOK, RollBack, Idle
    <3> QED BY <2>4, <3>1 DEF TypeOK, RollBack, SetFails, AdminGoesTo, AdminState
  <2> QED BY <1>1, <2>1, <2>2, <2>3, <2>4 DEF Administer
<1>2. ASSUME NEW v \in Visits PROVE Visit(v) \in RequestState
  BY <1>2, InForceTypes DEF Visit, RequestState
<1>3. ASSUME NEW r \in Requests, NEW v \in Visits, Begin(r, v) PROVE TypeOK'
  BY <1>2, <1>3 DEF TypeOK, Begin
<1>4. ASSUME NEW r \in Requests, ComeBack(r) PROVE TypeOK'
  <2>1. request[r].visit \in Visits
    BY <1>4, Shapes DEF ComeBack, At, TypeOK
  <2>2. [request[r].visit EXCEPT !.kind = "callback"] \in Visits
    BY <2>1 DEF Visits
  <2> QED BY <1>2, <1>4, <2>2 DEF TypeOK, ComeBack
<1>5. ASSUME NEW r \in Requests, Step(r) PROVE TypeOK'
  <2>1. ASSUME NEW s \in States, request[r].at \in {"get", "load", "fill"}
        PROVE [request[r] EXCEPT !.at = "told", !.state = s] \in RequestState
    <3>1. request[r] \in Asking \/ request[r] \in Answered
      BY <2>1, Shapes DEF TypeOK
    <3> QED BY <3>1 DEF Asking, Answered, RequestState
  <2>2. CASE LookUp(r)
    <3>1. request[r] \in Asking
      BY <2>2, Shapes DEF TypeOK, LookUp, At
    <3>2. [request[r] EXCEPT !.at = "load"] \in RequestState
      BY <3>1 DEF Asking, RequestState
    <3>3. request' \in [Requests -> RequestState]
      <4>1. CASE mirror = None
        BY <2>2, <3>2, <4>1 DEF TypeOK, LookUp, GoTo
      <4>2. CASE mirror # None
        BY <2>1, <2>2, <4>2 DEF TypeOK, LookUp, Tell, At
      <4> QED BY <4>1, <4>2
    <3> QED BY <2>2, <3>3 DEF TypeOK, LookUp
  <2>3. CASE Load(r)
    <3>1. request[r] \in Asking
      BY <2>3, Shapes DEF TypeOK, Load, At
    <3>2. row' \in States
      BY <2>3 DEF TypeOK, Load
    <3>3. [request[r] EXCEPT !.at = "fill", !.state = row'] \in RequestState
      BY <3>1, <3>2 DEF Asking, RequestState
    <3> QED BY <2>3, <3>2, <3>3 DEF TypeOK, Load
  <2>4. CASE Fill(r)
    <3>1. request[r] \in Answered
      BY <2>4, Shapes DEF TypeOK, Fill, At
    <3>2. [request[r] EXCEPT !.at = "told"] \in RequestState /\ request[r].state \in States
      BY <3>1 DEF Answered, RequestState
    <3> QED BY <2>4, <3>2 DEF TypeOK, Fill, GoTo
  <2>5. CASE FailOpen(r)
    <3>1. request[r].at \in {"get", "load", "fill"}
      BY <2>5 DEF FailOpen, At
    <3>2. mirror' \in States \cup {None}
      <4>1. CASE At(r, "fill")
        <5>1. request[r].state \in States
          BY <4>1, Shapes DEF At, TypeOK, Answered
        <5> QED BY <2>5, <5>1 DEF FailOpen, SetFails, TypeOK
      <4>2. CASE ~At(r, "fill")
        BY <2>5, <4>2 DEF FailOpen, TypeOK
      <4> QED BY <4>1, <4>2
    <3> QED BY <2>1, <2>5, <3>1, <3>2 DEF TypeOK, FailOpen, Tell
  <2>6. CASE Proceed(r)
    <3>1. request[r].visit \in Visits
      BY <2>6, Shapes DEF Proceed, At, TypeOK, Answered
    <3>2. [at |-> "away", visit |-> request[r].visit] \in RequestState /\ Idle \in RequestState
      BY <3>1 DEF RequestState
    <3> QED BY <2>6, <3>2 DEF TypeOK, Proceed
  <2>7. CASE Refuse(r)
    <3>1. request[r] \in Answered
      BY <2>7, Shapes DEF TypeOK, Refuse, At
    <3>2. /\ [request[r] EXCEPT !.at = "get", !.page = TRUE, !.state = None, !.seen = {}]
                 \in RequestState
          /\ Idle \in RequestState
      BY <3>1 DEF Answered, RequestState
    <3> QED BY <2>7, <3>2 DEF TypeOK, Refuse
  <2>8. CASE ShowPage(r)
    BY <2>8 DEF TypeOK, ShowPage, RequestState
  <2> QED BY <1>5, <2>2, <2>3, <2>4, <2>5, <2>6, <2>7, <2>8 DEF Step, GetState
<1>6. CASE LoseMirror
  BY <1>6 DEF TypeOK, LoseMirror
<1>7. CASE UNCHANGED vars
  BY <1>7 DEF TypeOK, vars
<1> QED BY <1>1, <1>3, <1>4, <1>5, <1>6, <1>7 DEF Next

\* The row, the mirror, and every transaction and visit have their types.
THEOREM TypeCorrect == Spec => []TypeOK
<1>1. Init => TypeOK
  BY StatesAssumption DEF Init, TypeOK, AdminState, RequestState
<1> QED BY <1>1, StepTypes, PTL DEF Spec

-------------------------------------------------------------------------------
(* The mirror, the row, and what the visits have seen.                     *)

Saving(a) == admin[a] # Idle

\* The row lock: there is one transaction at a time.
Locked == \A a, b \in Admins : Saving(a) /\ Saving(b) => a = b

\* The mirror holds the row until a transaction has written it.
Mirrored ==
  /\ row # None
  /\ \A a \in Admins : admin[a].at = "commit" => mirror = admin[a].state
  /\ (\A a \in Admins : admin[a].at # "commit") => mirror = row

\* A visit has seen everything that was in force since it began, and so what
\* it is told; it never finds the mirror empty.
Witnesses(v) == v.at = "get" => InForce \subseteq v.seen
Told(v) == v.at = "told" => v.state \in v.seen
Follows ==
  \A r \in Requests :
    /\ request[r].at \notin {"load", "fill"}
    /\ request[r].at \in {"get", "told"} /\ ~request[r].page =>
         Witnesses(request[r]) /\ Told(request[r])

IInv == TypeOK /\ Locked /\ (Reliable => Mirrored /\ Follows)

LEMMA InForceMeans ==
  ASSUME TypeOK, NEW s
  PROVE  s \in InForce <=> (s = row /\ row # None) \/
                           \E a \in Admins : Saving(a) /\ s = admin[a].state
BY DEF InForce, Pending, Saving

LEMMA MirrorInForce == TypeOK /\ Mirrored => mirror \in InForce
<1> SUFFICES ASSUME TypeOK, Mirrored PROVE mirror \in InForce
  OBVIOUS
<1>1. CASE \A a \in Admins : admin[a].at # "commit"
  BY <1>1, InForceMeans DEF Mirrored
<1>2. ASSUME NEW a \in Admins, admin[a].at = "commit" PROVE mirror \in InForce
  BY <1>2, InForceMeans DEF Mirrored, Saving, Idle
<1> QED BY <1>1, <1>2

LEMMA Safe == IInv /\ [Next]_vars => IInv'
<1> SUFFICES ASSUME IInv, [Next]_vars PROVE IInv'
  OBVIOUS
<1>0. TypeOK /\ TypeOK'
  BY StepTypes DEF IInv
<1>1. env' = env
  BY DEF Next, Administer, Step, GetState, SaveRow, WriteMirror, Commit, RollBack, Begin,
         ComeBack, LookUp, Load, Fill, FailOpen, Proceed, Refuse, ShowPage, LoseMirror, vars
<1>2. ASSUME NEW a \in Admins, NEW s \in States, SaveRow(a, s) PROVE IInv'
  <2>1. \A b \in Admins : ~Saving(b)
    BY <1>2 DEF SaveRow, Pending, Saving
  <2>2. /\ admin' = [admin EXCEPT ![a] = [at |-> "mirror", state |-> s]]
        /\ row' = row /\ mirror' = mirror
    BY <1>2 DEF SaveRow, AdminGoesTo
  <2>3. Locked'
    BY <1>0, <2>1, <2>2 DEF Locked, Saving, TypeOK
  <2>4. ASSUME Reliable PROVE Mirrored' /\ Follows'
    <3>1. Mirrored /\ Follows
      BY <2>4 DEF IInv
    <3>2. \A b \in Admins : admin[b].at # "commit" /\ admin'[b].at # "commit"
      BY <1>0, <2>1, <2>2 DEF Saving, Idle, TypeOK
    <3>3. Mirrored'
      BY <2>2, <3>1, <3>2 DEF Mirrored
    <3>4. InForce' = InForce \cup {s}
      <4>1. InForce = {row} /\ row # None
        BY <2>1, <3>1 DEF InForce, Pending, Saving, Mirrored
      <4>2. Pending' = {s}
        BY <1>0, <2>1, <2>2 DEF Pending, Saving, Idle, TypeOK
      <4> QED BY <2>2, <4>1, <4>2 DEF InForce
    <3>5. ASSUME NEW r \in Requests
          PROVE  /\ request'[r].at \notin {"load", "fill"}
                 /\ request'[r].at \in {"get", "told"} /\ ~request'[r].page =>
                      /\ request'[r].at = "get" => InForce' \subseteq request'[r].seen
                      /\ Told(request'[r])
      <4>1. CASE request[r].at \in {"idle", "away"} \/ request[r].page
        BY <1>2, <3>1, <4>1 DEF SaveRow, Follows
      <4>2. CASE ~(request[r].at \in {"idle", "away"} \/ request[r].page)
        <5>1. request'[r] = [request[r] EXCEPT !.seen = @ \cup {s}]
          BY <1>2, <4>2 DEF SaveRow
        <5>2. request[r] \in Asking \/ request[r] \in Answered
          BY <1>0, <4>2, Shapes DEF TypeOK
        <5>3. /\ request'[r].at = request[r].at /\ request'[r].state = request[r].state
              /\ request'[r].page = request[r].page
              /\ request'[r].seen = request[r].seen \cup {s}
          BY <5>1, <5>2 DEF Asking, Answered
        <5> QED BY <3>1, <3>4, <5>3 DEF Follows, Witnesses, Told
      <4> QED BY <4>1, <4>2
    <3> QED BY <3>3, <3>5 DEF Follows, Witnesses, Told
  <2> QED BY <1>0, <1>1, <2>3, <2>4 DEF IInv, Reliable
<1>3. ASSUME NEW a \in Admins, WriteMirror(a) \/ Commit(a) \/ RollBack(a) PROVE IInv'
  <2>1. Saving(a) /\ \A b \in Admins \ {a} : admin[b] = Idle /\ admin'[b] = Idle
    <3>1. Saving(a)
      BY <1>3 DEF WriteMirror, Commit, RollBack, Saving, Idle
    <3>2. \A b \in Admins \ {a} : admin'[b] = admin[b]
      BY <1>0, <1>3 DEF WriteMirror, Commit, RollBack, AdminGoesTo, TypeOK
    <3> QED BY <3>1, <3>2 DEF IInv, Locked, Saving
  <2>2. Locked'
    BY <2>1 DEF Locked, Saving
  <2>3. admin[a] \in [at : {"mirror", "commit"}, state : States]
    BY <1>0, <2>1, AdminShapes DEF TypeOK, Saving
  <2>4. request' = request
    BY <1>3 DEF WriteMirror, Commit, RollBack
  <2>5. ASSUME Reliable PROVE Mirrored' /\ InForce' \subseteq InForce
    <3>1. Mirrored
      BY <2>5 DEF IInv
    <3>2. CASE WriteMirror(a)
      <4>1. /\ admin'[a] = [admin[a] EXCEPT !.at = "commit"]
            /\ mirror' = admin[a].state /\ row' = row
        BY <1>0, <3>2 DEF WriteMirror, AdminGoesTo, TypeOK
      <4>2. admin'[a].at = "commit" /\ admin'[a].state = admin[a].state
        BY <2>3, <4>1
      <4>3. Mirrored'
        <5>1. \A b \in Admins : admin'[b].at = "commit" => b = a
          BY <2>1 DEF Idle
        <5>2. \A b \in Admins : admin'[b].at = "commit" => mirror' = admin'[b].state
          BY <4>1, <4>2, <5>1
        <5>3. row' # None
          BY <3>1, <4>1 DEF Mirrored
        <5> QED BY <4>2, <5>2, <5>3 DEF Mirrored
      <4>4. Pending' = Pending
        <5>1. Saving(a)' /\ \A b \in Admins : Saving(b) => b = a
          BY <2>1, <4>2 DEF Saving, Idle
        <5>2. Pending = {admin[a].state} /\ Pending' = {admin'[a].state}
          BY <2>1, <5>1 DEF Pending, Saving
        <5> QED BY <4>2, <5>2
      <4> QED BY <4>1, <4>3, <4>4 DEF InForce
    <3>3. CASE Commit(a)
      <4>1. admin'[a] = Idle /\ row' = admin[a].state /\ mirror' = mirror
        BY <1>0, <3>3 DEF Commit, AdminGoesTo, TypeOK
      <4>2. mirror = admin[a].state
        BY <3>1, <3>3 DEF Mirrored, Commit
      <4>3. \A b \in Admins : admin'[b].at # "commit"
        BY <2>1, <4>1 DEF Idle
      <4>4. Mirrored'
        BY <2>3, <4>1, <4>2, <4>3, StatesAssumption DEF Mirrored
      <4>5. Pending' = {} /\ admin[a].state \in Pending
        BY <2>1, <4>1 DEF Pending, Saving
      <4> QED BY <4>1, <4>4, <4>5 DEF InForce
    <3>4. CASE RollBack(a)
      BY <2>5, <3>4 DEF RollBack, SetFails, Reliable
    <3> QED BY <1>3, <3>2, <3>3, <3>4
  <2>6. ASSUME Reliable PROVE Follows'
    BY <2>4, <2>5, <2>6 DEF IInv, Follows, Witnesses, Told
  <2> QED BY <1>0, <1>1, <2>2, <2>5, <2>6 DEF IInv, Reliable
<1>4. ASSUME NEW r \in Requests,
             UNCHANGED <<row, mirror, admin>> \/ ~Reliable,
             UNCHANGED admin,
             Reliable =>
               /\ \A q \in Requests \ {r} : request'[q] = request[q]
               /\ request'[r].at \notin {"load", "fill"}
               /\ request'[r].at \in {"get", "told"} /\ ~request'[r].page =>
                    Witnesses(request'[r]) /\ Told(request'[r])
      PROVE  IInv'
  <2>1. Locked'
    BY <1>4 DEF IInv, Locked, Saving
  <2>2. ASSUME Reliable PROVE Mirrored' /\ Follows'
    <3>1. InForce' = InForce
      BY <1>4, <2>2 DEF InForce, Pending
    <3>2. Mirrored'
      BY <1>4, <2>2 DEF IInv, Mirrored
    <3>3. Follows'
      BY <1>4, <2>2, <3>1 DEF IInv, Follows, Witnesses, Told
    <3> QED BY <3>2, <3>3
  <2> QED BY <1>0, <1>1, <2>1, <2>2 DEF IInv, Reliable
<1>5. ASSUME NEW r \in Requests, NEW v \in Visits,
             request' = [request EXCEPT ![r] = Visit(v)], UNCHANGED <<row, mirror, admin>>
      PROVE  IInv'
  <2>1. /\ \A q \in Requests \ {r} : request'[q] = request[q]
        /\ request'[r].at = "get" /\ request'[r].seen = InForce
    BY <1>0, <1>5 DEF Visit, TypeOK
  <2>2. InForce' = InForce
    BY <1>5 DEF InForce, Pending
  <2> QED BY <1>4, <1>5, <2>1, <2>2 DEF Witnesses, Told
<1>6. ASSUME NEW r \in Requests, Step(r) PROVE IInv'
  <2>1. UNCHANGED admin
    BY <1>6 DEF Step, GetState, LookUp, Load, Fill, FailOpen, Proceed, Refuse, ShowPage
  <2>2. ASSUME Reliable
        PROVE  LookUp(r) \/ Proceed(r) \/ Refuse(r) \/ ShowPage(r)
    BY <1>6, <2>2 DEF Step, GetState, Load, Fill, FailOpen, SetFails, At, Reliable, IInv, Follows
  <2>3. CASE ~Reliable
    BY <1>4, <2>1, <2>3
  <2>4. CASE Reliable /\ LookUp(r)
    <3>1. mirror \in InForce /\ mirror \in States
      BY <1>0, <2>4, MirrorInForce, InForceTypes DEF IInv
    <3>2. request[r] \in Asking
      BY <1>0, <2>4, Shapes DEF LookUp, At, TypeOK
    <3>3. request' = [request EXCEPT ![r].at = "told", ![r].state = mirror]
      BY <2>4, <3>1, StatesAssumption DEF LookUp, Tell
    <3>4. /\ request'[r].at = "told" /\ request'[r].state = mirror
          /\ request'[r].page = request[r].page /\ request'[r].seen = request[r].seen
          /\ \A q \in Requests \ {r} : request'[q] = request[q]
      BY <1>0, <3>2, <3>3 DEF Asking, TypeOK
    <3>5. ~request[r].page => InForce \subseteq request[r].seen
      BY <2>4 DEF IInv, Follows, Witnesses, LookUp, At
    <3>6. UNCHANGED <<row, mirror, admin>>
      BY <2>4 DEF LookUp
    <3> QED BY <1>4, <3>1, <3>4, <3>5, <3>6 DEF Witnesses, Told
  <2>5. CASE Reliable /\ (Proceed(r) \/ Refuse(r) \/ ShowPage(r))
    <3>1. /\ UNCHANGED <<row, mirror, admin>>
          /\ \A q \in Requests \ {r} : request'[q] = request[q]
      BY <1>0, <2>5 DEF Proceed, Refuse, ShowPage, TypeOK
    <3>2. request'[r].at \notin {"load", "fill"} /\
            (request'[r].at \in {"get", "told"} => request'[r].page)
      <4>1. request[r] \in Answered
        BY <1>0, <2>5, Shapes DEF Proceed, Refuse, ShowPage, At, TypeOK
      <4>2. CASE request'[r] \in {Idle, [at |-> "away", visit |-> request[r].visit]}
        BY <4>2 DEF Idle
      <4>3. CASE request'[r] = [request[r] EXCEPT !.at = "get", !.page = TRUE, !.state = None, !.seen = {}]
        BY <4>1, <4>3 DEF Answered
      <4> QED BY <1>0, <2>5, <4>2, <4>3 DEF Proceed, Refuse, ShowPage, TypeOK
    <3> QED BY <1>4, <3>1, <3>2
  <2> QED BY <2>2, <2>3, <2>4, <2>5
<1>7. CASE LoseMirror
  BY <1>0, <1>1, <1>7 DEF LoseMirror, IInv, Reliable, Locked, Saving
<1>8. CASE UNCHANGED vars
  BY <1>0, <1>8 DEF vars, IInv, Reliable, Locked, Saving, Mirrored, Follows, Witnesses, Told,
                    InForce, Pending
<1>9. ASSUME NEW r \in Requests, ComeBack(r) PROVE IInv'
  <2>1. request[r].visit \in Visits
    BY <1>0, <1>9, Shapes DEF ComeBack, At, TypeOK
  <2>2. [request[r].visit EXCEPT !.kind = "callback"] \in Visits
    BY <2>1 DEF Visits
  <2> QED BY <1>5, <1>9, <2>2 DEF ComeBack
<1>10. ASSUME NEW r \in Requests, NEW v \in Visits, Begin(r, v) PROVE IInv'
  BY <1>5, <1>10 DEF Begin
<1> QED BY <1>2, <1>3, <1>6, <1>7, <1>8, <1>9, <1>10 DEF Next, Administer

LEMMA Initially == Init => IInv
<1> SUFFICES ASSUME Init PROVE IInv
  OBVIOUS
<1>1. TypeOK
  BY StatesAssumption DEF Init, TypeOK, AdminState, RequestState
<1>2. Locked
  BY DEF Init, Locked, Saving
<1>3. Reliable => Mirrored /\ Follows
  BY DEF Init, Reliable, Mirrored, Follows, Idle
<1> QED BY <1>1, <1>2, <1>3 DEF IInv

\* The inductive invariant.
THEOREM Inductive == Spec => []IInv
BY Initially, Safe, PTL DEF Spec

\* The mirror is the row or what is being saved, while the cache keeps its entry
\* and nothing fails, for any number of administrators.
THEOREM MirrorFollows == Spec => []MirrorFollowsRow
<1>1. IInv => MirrorFollowsRow
  BY MirrorInForce DEF IInv, MirrorFollowsRow
<1> QED BY <1>1, Inductive, PTL

\* During maintenance only staff get through, for any number of visits.
THEOREM ReadOnly == Spec => ReadOnlyWhileOn
<1>1. IInv /\ [Next]_vars =>
        [\A r \in Requests :
           Reliable /\ Proceed(r) /\ request[r].seen \subseteq On =>
             request[r].visit.staff /\ request[r].visit.kind \in {"login", "write"}]_vars
  <2> SUFFICES ASSUME IInv, NEW r \in Requests, Reliable, Proceed(r), request[r].seen \subseteq On
               PROVE  request[r].visit.staff /\ request[r].visit.kind \in {"login", "write"}
    OBVIOUS
  <2>1. request[r].state \in On
    BY DEF IInv, Follows, Told, Proceed, At
  <2>2. ~Blocked(r)
    BY DEF Proceed
  <2> QED BY <2>1, <2>2 DEF Blocked
<1> QED BY <1>1, Inductive, PTL DEF Spec, ReadOnlyWhileOn
================================================================================
