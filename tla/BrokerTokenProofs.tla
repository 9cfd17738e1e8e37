--------------------------- MODULE BrokerTokenProofs ---------------------------
(***************************************************************************)
(* Theorems about BrokerToken, for any number of tokens and of concurrent  *)
(* requests, and about SatelliteLogin, for any number of browsers and of   *)
(* satellites, which inherits them.  What is said of acceptance leaves out *)
(* the tokens for which two requests ran at the same time: for those TLC   *)
(* finds a second acceptance.                                              *)
(***************************************************************************)
EXTENDS SatelliteLogin, TLAPS

-------------------------------------------------------------------------------
(* What a step does to the requests, one lemma per kind of step.           *)

LEMMA BeginEffect ==
  ASSUME TypeOK, NEW r \in Requests, NEW t \in Tokens, Begin(r, t)
  PROVE  /\ request' \in [Requests -> RequestState]
         /\ ~Surviving(r)' /\ ~Surviving(r)
         /\ \A s \in Requests : s # r => request'[s] = request[s]
<1>1. /\ [pc |-> "lookup", token |-> t, late |-> t \in spent] \in RequestState
      /\ Idle \in RequestState
  BY DEF RequestState
<1>2. request'[r] = [pc |-> "lookup", token |-> t, late |-> t \in spent]
  BY DEF Begin, TypeOK
<1> QED
  BY <1>1, <1>2 DEF Begin, TypeOK, Surviving

LEMMA LookUpEffect ==
  ASSUME TypeOK, NEW r \in Requests, LookUpNonce(r)
  PROVE  /\ request' \in [Requests -> RequestState]
         /\ request[r].token \in Tokens
         /\ ~Surviving(r)
         /\ Surviving(r)' => /\ request[r].token \in nonces
                             /\ request'[r].token = request[r].token
                             /\ request'[r].late = request[r].late
         /\ request[r].token \in nonces => Surviving(r)'
         /\ \A s \in Requests : s # r => request'[s] = request[s]
<1> DEFINE busy == [request[r] EXCEPT !.pc = "delete"]
           new == IF request[r].token \in nonces THEN busy ELSE Idle
<1>1. request[r] \in [pc : {"lookup", "delete"}, token : Tokens, late : BOOLEAN]
  BY DEF TypeOK, RequestState, LookUpNonce, Idle
<1>2. /\ busy \in RequestState
      /\ busy.pc = "delete"
      /\ busy.token = request[r].token
      /\ busy.late = request[r].late
  BY <1>1 DEF RequestState
<1>3. Idle \in RequestState /\ Idle.pc = "idle"
  BY DEF RequestState, Idle
<1>4. request' = [request EXCEPT ![r] = new]
  BY DEF LookUpNonce
<1>5. new \in RequestState
  BY <1>2, <1>3
<1>6. /\ request[r].token \in nonces => new = busy
      /\ request[r].token \notin nonces => new = Idle
  OBVIOUS
<1> HIDE DEF new, busy
<1>7. /\ request' \in [Requests -> RequestState]
      /\ request'[r] = new
      /\ \A s \in Requests : s # r => request'[s] = request[s]
  BY <1>4, <1>5 DEF TypeOK
<1>8. ~Surviving(r)
  BY DEF LookUpNonce, Surviving
<1> QED
  BY <1>1, <1>2, <1>3, <1>6, <1>7, <1>8 DEF Surviving

LEMMA DeleteEffect ==
  ASSUME TypeOK, NEW r \in Requests, DeleteNonce(r)
  PROVE  /\ request' \in [Requests -> RequestState]
         /\ request[r].token \in Tokens
         /\ Surviving(r) /\ ~Surviving(r)'
         /\ \A s \in Requests : s # r => request'[s] = request[s]
<1>1. request[r] \in [pc : {"lookup", "delete"}, token : Tokens, late : BOOLEAN]
  BY DEF TypeOK, RequestState, DeleteNonce, Idle
<1>2. Idle \in RequestState /\ Idle.pc = "idle"
  BY DEF RequestState, Idle
<1> QED
  BY <1>1, <1>2 DEF DeleteNonce, TypeOK, Surviving

-------------------------------------------------------------------------------
(* Replay, for any number of concurrent requests.                          *)

\* What a request past its start knows of its token: it was built, and if the
\* request began late it is spent, so that its nonce cannot be found.
Known(r) ==
  /\ request[r].pc # "idle" => request[r].token \in minted
  /\ request[r].pc = "lookup" /\ request[r].late => request[r].token \in spent
  /\ Surviving(r) => ~request[r].late

IInv == TypeOK /\ \A r \in Requests : Known(r)

LEMMA IInvInit == Init => IInv
  BY DEF Init, IInv, TypeOK, Known, Surviving, RequestState, Idle

LEMMA KnownStays ==
  ASSUME NEW r \in Requests, Known(r), request'[r] = request[r],
         minted \subseteq minted', spent \subseteq spent'
  PROVE  Known(r)'
  BY DEF Known, Surviving

LEMMA IInvStep == IInv /\ [Next]_vars => IInv'
<1> SUFFICES ASSUME IInv, [Next]_vars PROVE IInv'
  OBVIOUS
<1>0. TypeOK /\ \A r \in Requests : Known(r)
  BY DEF IInv
<1>1. ASSUME NEW t \in Tokens, BuildBrokerRedirect(t) PROVE IInv'
  <2>1. TypeOK'
    BY <1>0, <1>1 DEF BuildBrokerRedirect, TypeOK
  <2>2. \A r \in Requests : Known(r)'
    BY <1>0, <1>1, KnownStays DEF BuildBrokerRedirect
  <2> QED
    BY <2>1, <2>2 DEF IInv
<1>2. ASSUME NEW t \in Tokens, DropNonce(t) PROVE IInv'
  BY <1>0, <1>2, KnownStays DEF DropNonce, TypeOK, IInv
<1>3. ASSUME NEW t \in Tokens, Expire(t) PROVE IInv'
  BY <1>0, <1>3, KnownStays DEF Expire, TypeOK, IInv
<1>4. ASSUME NEW r \in Requests, NEW t \in Tokens, Begin(r, t) PROVE IInv'
  <2>1. TypeOK'
    <3>1. contested' \subseteq minted
      BY <1>0, <1>4 DEF Begin, TypeOK
    <3> QED
      BY <1>0, <1>4, <3>1, BeginEffect DEF Begin, TypeOK
  <2>2. Known(r)'
    BY <1>0, <1>4 DEF Begin, TypeOK, Known, Surviving
  <2>3. \A s \in Requests : s # r => Known(s)'
    BY <1>0, <1>4, BeginEffect, KnownStays DEF Begin
  <2> QED
    BY <2>1, <2>2, <2>3 DEF IInv
<1>5. ASSUME NEW r \in Requests, LookUpNonce(r) PROVE IInv'
  <2>1. TypeOK'
    BY <1>0, <1>5, LookUpEffect DEF LookUpNonce, TypeOK
  <2>2. request'[r].pc = "idle" \/ Surviving(r)'
    BY <1>0, <1>5 DEF LookUpNonce, TypeOK, RequestState, Surviving, Idle
  <2>3. ASSUME Surviving(r)' PROVE Known(r)'
    <3>1. /\ request[r].token \in nonces
          /\ request'[r].token = request[r].token
          /\ request'[r].late = request[r].late
      BY <1>0, <1>5, <2>3, LookUpEffect
    <3>2. request[r].token \in minted /\ ~request[r].late
      BY <1>0, <1>5, <3>1 DEF TypeOK, Known, LookUpNonce
    <3> QED
      BY <1>5, <2>3, <3>1, <3>2 DEF Known, Surviving, LookUpNonce
  <2>4. Known(r)'
    BY <2>2, <2>3 DEF Known, Surviving
  <2>5. \A s \in Requests : s # r => Known(s)'
    BY <1>0, <1>5, LookUpEffect, KnownStays DEF LookUpNonce
  <2> QED
    BY <2>1, <2>4, <2>5 DEF IInv
<1>6. ASSUME NEW r \in Requests, DeleteNonce(r) PROVE IInv'
  <2> DEFINE t == request[r].token
  <2>1. t \in minted /\ t \in Tokens
    BY <1>0, <1>6 DEF DeleteNonce, Known, TypeOK
  <2>2. accepted' \in [Tokens -> Nat]
    <3>1. accepted' = [accepted EXCEPT ![t] = accepted[t] + 1]
      BY <1>6 DEF DeleteNonce
    <3> HIDE DEF t
    <3> QED
      BY <1>0, <2>1, <3>1 DEF TypeOK
  <2>3. TypeOK'
    BY <1>0, <1>6, <2>1, <2>2, DeleteEffect DEF DeleteNonce, TypeOK
  <2>4. request'[r] = Idle
    BY <1>0, <1>6 DEF DeleteNonce, TypeOK
  <2>5. Known(r)'
    BY <2>4 DEF Known, Surviving, Idle
  <2>6. \A s \in Requests : s # r => Known(s)'
    BY <1>0, <1>6, DeleteEffect, KnownStays DEF DeleteNonce
  <2> QED
    BY <2>3, <2>5, <2>6 DEF IInv
<1>7. CASE UNCHANGED vars
  BY <1>0, <1>7, KnownStays DEF vars, TypeOK, IInv
<1> QED
  BY <1>1, <1>2, <1>3, <1>4, <1>5, <1>6, <1>7
     DEF Next, ConsumeBrokerToken, VerifyBrokerNonce

LEMMA IInvAlways == Spec => []IInv
  BY IInvInit, IInvStep, PTL DEF Spec

\* Type correctness: also that a spent nonce never returns to the cache and
\* that every nonce belongs to a token that was built.
THEOREM TypeCorrect == Spec => []TypeOK
  BY IInvAlways, PTL DEF IInv

\* A request that begins after its token was spent is refused, whatever other
\* requests do meanwhile (cache.get in consume_broker_token and
\* verify_broker_nonce).
THEOREM ReplayRefused == Spec => []ReplayIsRefused
<1>1. IInv => ReplayIsRefused
  BY DEF IInv, Known, ReplayIsRefused
<1> QED
  BY <1>1, IInvAlways, PTL

-------------------------------------------------------------------------------
(* Tokens that were never contested.                                       *)

\* A request that found the nonce of an uncontested token will be the first to
\* spend it, because it is the only one at work on that token.
OnceInv ==
  /\ \A t \in Tokens \ contested : accepted[t] = IF t \in spent THEN 1 ELSE 0
  /\ \A t \in Tokens \ contested : \A r, q \in Requests :
       Uses(r, t) /\ Uses(q, t) => r = q
  /\ \A r \in Requests : Surviving(r) /\ request[r].token \notin contested
       => request[r].token \notin spent

LEMMA OnceInit == Init => OnceInv
  BY DEF Init, OnceInv, Surviving, Uses, Idle

LEMMA OnceStep == IInv /\ OnceInv /\ [Next]_vars => OnceInv'
<1> SUFFICES ASSUME IInv, OnceInv, [Next]_vars PROVE OnceInv'
  OBVIOUS
<1>0. TypeOK
  BY DEF IInv
<1>1. ASSUME UNCHANGED <<accepted, spent, request, contested>> PROVE OnceInv'
  BY <1>1 DEF OnceInv, Surviving, Uses
<1>2. ASSUME NEW r \in Requests, NEW t \in Tokens, Begin(r, t) PROVE OnceInv'
  <2>1. /\ \A q \in Requests : q # r => request'[q] = request[q]
        /\ ~Surviving(r)'
    BY <1>0, <1>2, BeginEffect
  <2>2. contested \subseteq contested' /\ UNCHANGED <<accepted, spent>>
    BY <1>2 DEF Begin
  <2>3. ASSUME NEW u \in Tokens \ contested', NEW q \in Requests, q # r,
               Uses(q, u)', Uses(r, u)'
        PROVE  FALSE
    <3>1. u = t
      BY <1>0, <1>2, <2>3 DEF Begin, TypeOK, Uses
    <3>2. Uses(q, u)
      BY <2>1, <2>3 DEF Uses
    <3> QED
      BY <1>2, <2>3, <3>1, <3>2 DEF Begin
  <2>4. \A u \in Tokens \ contested' : \A p, q \in Requests :
          Uses(p, u)' /\ Uses(q, u)' => p = q
    BY <2>1, <2>2, <2>3 DEF OnceInv, Uses
  <2> QED
    BY <2>1, <2>2, <2>4 DEF OnceInv, Surviving
<1>3. ASSUME NEW r \in Requests, LookUpNonce(r) PROVE OnceInv'
  <2>1. Surviving(r)' => request'[r].token \notin spent
    BY <1>0, <1>3, LookUpEffect DEF TypeOK
  <2>2. /\ \A q \in Requests : q # r => request'[q] = request[q]
        /\ UNCHANGED <<accepted, spent, contested>>
    BY <1>0, <1>3, LookUpEffect DEF LookUpNonce
  <2>3. \A u \in Tokens : Uses(r, u)' => Uses(r, u)
    <3>1. request'[r].pc = "idle" \/ Surviving(r)'
      BY <1>0, <1>3 DEF LookUpNonce, TypeOK, RequestState, Surviving, Idle
    <3>2. Surviving(r)' => request'[r].token = request[r].token
      BY <1>0, <1>3, LookUpEffect
    <3> QED
      BY <1>3, <3>1, <3>2 DEF Uses, LookUpNonce
  <2> QED
    BY <2>1, <2>2, <2>3 DEF OnceInv, Surviving, Uses
<1>4. ASSUME NEW r \in Requests, DeleteNonce(r) PROVE OnceInv'
  <2>0. PICK t \in Tokens : t = request[r].token
    BY <1>0, <1>4, DeleteEffect
  <2>1. /\ accepted' = [accepted EXCEPT ![t] = accepted[t] + 1]
        /\ spent' = spent \cup {t} /\ contested' = contested
        /\ Uses(r, t) /\ Surviving(r)
    BY <1>4, <2>0 DEF DeleteNonce, Uses, Surviving
  <2>2. t \notin contested => t \notin spent /\ accepted[t] = 0
    BY <2>0, <2>1 DEF OnceInv
  <2>3. \A u \in Tokens \ contested : accepted'[u] = IF u \in spent' THEN 1 ELSE 0
    BY <1>0, <2>1, <2>2 DEF TypeOK, OnceInv
  <2>4. /\ \A q \in Requests : q # r => request'[q] = request[q]
        /\ ~Surviving(r)'
    BY <1>0, <1>4, DeleteEffect
  <2>5. \A u \in Tokens : ~Uses(r, u)'
    BY <1>0, <1>4 DEF DeleteNonce, TypeOK, Uses, Idle
  <2>6. \A u \in Tokens \ contested : \A p, q \in Requests :
          Uses(p, u)' /\ Uses(q, u)' => p = q
    BY <2>4, <2>5 DEF OnceInv, Uses
  <2>7. ASSUME NEW q \in Requests, Surviving(q)', request'[q].token \notin contested
        PROVE  request'[q].token \notin spent'
    <3>1. q # r /\ Surviving(q) /\ request'[q] = request[q]
      BY <2>4, <2>7 DEF Surviving
    <3>2. request[q].token \notin spent
      BY <2>7, <3>1 DEF OnceInv
    <3>3. Uses(q, request[q].token)
      BY <3>1 DEF Uses, Surviving
    <3>4. request[q].token # t
      BY <2>1, <2>7, <3>1, <3>3 DEF OnceInv
    <3> QED
      BY <2>1, <3>1, <3>2, <3>4
  <2> QED
    BY <2>1, <2>3, <2>6, <2>7 DEF OnceInv
<1> QED
  BY <1>1, <1>2, <1>3, <1>4
     DEF Next, BuildBrokerRedirect, DropNonce, Expire, ConsumeBrokerToken,
         VerifyBrokerNonce, vars

LEMMA OnceAlways == Spec => [](IInv /\ OnceInv)
<1>1. Init => IInv /\ OnceInv
  BY IInvInit, OnceInit
<1>2. IInv /\ OnceInv /\ [Next]_vars => (IInv /\ OnceInv)'
  BY IInvStep, OnceStep
<1> QED
  BY <1>1, <1>2, PTL DEF Spec

\* "One-time use" (consume_broker_token): unless two requests present a token
\* at the same time, it is accepted at most once.
THEOREM AcceptedOnce == Spec => []UncontestedIsAcceptedOnce
<1>1. ASSUME OnceInv PROVE UncontestedIsAcceptedOnce
  <2>1. ASSUME NEW t \in Tokens \ contested PROVE accepted[t] <= 1
    <3>1. accepted[t] = 0 \/ accepted[t] = 1
      BY <1>1 DEF OnceInv
    <3> QED
      BY <3>1
  <2> QED
    BY <2>1 DEF UncontestedIsAcceptedOnce
<1> QED
  BY <1>1, OnceAlways, PTL

-------------------------------------------------------------------------------
(* Refinement.                                                             *)

LEMMA OneTurn ==
  ASSUME NEW t \in Tokens, NEW from, NEW to,
         Status(t) = from, Status(t)' = to,
         \A s \in Tokens : s # t => Status(s)' = Status(s)
  PROVE  Promise!Turn(t, from, to)
  BY DEF Promise!Turn

LEMMA NoTurn ==
  ASSUME \A t \in Tokens : Status(t)' = Status(t)
  PROVE  UNCHANGED [t \in Tokens |-> Status(t)]
  OBVIOUS

LEMMA StatusInit == Init => Promise!Init
  BY DEF Init, Promise!Init, Status

LEMMA StatusStep ==
  IInv /\ OnceInv /\ [Next]_vars
    => [Promise!Next]_([t \in Tokens |-> Status(t)])
<1> DEFINE st == [t \in Tokens |-> Status(t)]
<1> SUFFICES ASSUME IInv, OnceInv, [Next]_vars PROVE [Promise!Next]_st
  OBVIOUS
<1>0. TypeOK
  BY DEF IInv
<1>1. ASSUME NEW t \in Tokens, BuildBrokerRedirect(t) PROVE [Promise!Next]_st
  <2>1. t \notin contested /\ accepted[t] = 0
    BY <1>0, <1>1 DEF BuildBrokerRedirect, TypeOK, OnceInv
  <2>2. Status(t) = "unissued" /\ Status(t)' = "valid"
    BY <1>1, <2>1 DEF BuildBrokerRedirect, Status, InUse
  <2>3. \A s \in Tokens : s # t => Status(s)' = Status(s)
    BY <1>1 DEF BuildBrokerRedirect, Status, InUse, Surviving
  <2> QED
    BY <2>2, <2>3, OneTurn DEF Promise!Next, Promise!Issue
<1>2. ASSUME NEW t \in Tokens, DropNonce(t) PROVE [Promise!Next]_st
  <2>1. \A s \in Tokens : s # t => Status(s)' = Status(s)
    BY <1>2 DEF DropNonce, Status, InUse, Surviving
  <2>2. \/ Status(t)' = Status(t)
        \/ Status(t) = "valid" /\ Status(t)' = "lapsed"
    BY <1>2 DEF DropNonce, Status, InUse, Surviving
  <2> QED
    BY <2>1, <2>2, OneTurn, NoTurn DEF Promise!Next, Promise!Lapse
<1>3. ASSUME NEW t \in Tokens, Expire(t) PROVE [Promise!Next]_st
  BY <1>3, NoTurn DEF Expire, Status, InUse, Surviving
<1>4. ASSUME NEW r \in Requests, NEW t \in Tokens, Begin(r, t)
      PROVE  [Promise!Next]_st
  <2>1. \A s \in Tokens : InUse(s)' = InUse(s)
    BY <1>0, <1>4, BeginEffect DEF Begin, InUse, Surviving
  <2>2. UNCHANGED <<minted, accepted>> /\ t \in minted
        /\ contested' \subseteq contested \cup {t} /\ contested \subseteq contested'
    BY <1>4 DEF Begin
  <2>3. \A s \in Tokens : s # t => Status(s)' = Status(s)
    BY <2>1, <2>2 DEF Status
  <2>4. CASE t \in contested' /\ t \notin contested
    <3>1. Status(t)' = "contested"
      BY <2>2, <2>4 DEF Status
    <3>2. Status(t) \in {"valid", "used", "lapsed"}
      BY <2>2, <2>4 DEF Status
    <3>3. Promise!Turn(t, Status(t), "contested")
      BY <2>3, <3>1, OneTurn
    <3> QED
      BY <3>2, <3>3 DEF Promise!Next, Promise!Contest
  <2>5. CASE ~(t \in contested' /\ t \notin contested)
    <3>1. Status(t)' = Status(t)
      BY <2>1, <2>2, <2>5 DEF Status
    <3> QED
      BY <2>3, <3>1, NoTurn
  <2> QED
    BY <2>4, <2>5
<1>5. ASSUME NEW r \in Requests, LookUpNonce(r) PROVE [Promise!Next]_st
  <2>1. ASSUME NEW s \in Tokens PROVE InUse(s)' = InUse(s)
    <3>1. nonces' = nonces
      BY <1>5 DEF LookUpNonce
    <3>2. \A q \in Requests :
            q # r => (Surviving(q)' <=> Surviving(q))
                     /\ request'[q].token = request[q].token
      BY <1>0, <1>5, LookUpEffect DEF Surviving
    <3>3. ~Surviving(r)
          /\ (Surviving(r)' => request[r].token \in nonces
                               /\ request'[r].token = request[r].token)
      BY <1>0, <1>5, LookUpEffect
    <3> QED
      BY <3>1, <3>2, <3>3 DEF InUse
  <2> QED
    BY <1>5, <2>1, NoTurn DEF LookUpNonce, Status
<1>6. ASSUME NEW r \in Requests, DeleteNonce(r) PROVE [Promise!Next]_st
  <2>0. PICK t \in Tokens : t = request[r].token
    BY <1>0, <1>6, DeleteEffect
  <2>1. t \in minted /\ Surviving(r) /\ UNCHANGED <<minted, contested>>
    BY <1>0, <1>6, <2>0, DeleteEffect DEF IInv, Known, DeleteNonce
  <2>2. ASSUME NEW s \in Tokens, s # t PROVE Status(s)' = Status(s)
    <3>1. accepted'[s] = accepted[s] /\ (s \in nonces' <=> s \in nonces)
      BY <1>0, <1>6, <2>0, <2>2 DEF DeleteNonce, TypeOK
    <3>2. InUse(s)' = InUse(s)
      BY <1>0, <1>6, <2>0, <2>2, <3>1, DeleteEffect DEF InUse, Surviving
    <3> QED
      BY <2>1, <3>1, <3>2 DEF Status
  <2>3. CASE t \in contested
    <3>1. Status(t)' = Status(t)
      BY <2>1, <2>3 DEF Status
    <3> QED
      BY <2>2, <3>1, NoTurn
  <2>4. CASE t \notin contested
    <3>1. t \notin spent /\ accepted[t] = 0
      BY <2>0, <2>1, <2>4 DEF OnceInv
    <3>2. Status(t) = "valid"
      BY <2>0, <2>1, <2>4, <3>1 DEF Status, InUse
    <3>3. accepted'[t] = 1
      BY <1>0, <1>6, <2>0, <3>1 DEF DeleteNonce, TypeOK
    <3>4. Status(t)' = "used"
      BY <2>1, <2>4, <3>3 DEF Status
    <3> QED
      BY <2>2, <3>2, <3>4, OneTurn DEF Promise!Next, Promise!Accept
  <2> QED
    BY <2>3, <2>4
<1>7. CASE UNCHANGED vars
  BY <1>7, NoTurn DEF vars, Status, InUse, Surviving
<1> QED
  BY <1>1, <1>2, <1>3, <1>4, <1>5, <1>6, <1>7
     DEF Next, ConsumeBrokerToken, VerifyBrokerNonce

\* The hub's cache, the satellites and the verification endpoint together
\* implement the promised one-time token.
THEOREM Implements == Spec => ImplementsOneTimeToken
<1>1. Init => Promise!Init
  BY StatusInit
<1>2. IInv /\ OnceInv /\ [Next]_vars
        => [Promise!Next]_([t \in Tokens |-> Status(t)])
  BY StatusStep
<1> QED
  BY <1>1, <1>2, OnceAlways, PTL DEF Spec, ImplementsOneTimeToken, Promise!Spec

-------------------------------------------------------------------------------
(* SatelliteLogin: every step of a login is a step of the broker, or none. *)

LEMMA SsoStepIsBrokerStep == [SsoNext]_ssoVars => [Next]_vars
<1> SUFFICES ASSUME SsoNext PROVE [Next]_vars
  BY DEF ssoVars
<1>0. \A p \in Places : p \in Requests
  BY PlacesAssumption
<1>1. ASSUME NEW p \in Places,
             Visit(p) \/ ClickLogin(p) \/ MarkerExpires(p)
               \/ (\E t \in Tokens : Reopen(p, t))
      PROVE  UNCHANGED vars
  BY <1>1 DEF Visit, ClickLogin, MarkerExpires, Reopen
<1>2. ASSUME NEW p \in Places,
             Serve(p) \/ Check(p) \/ Grant(p) \/ Refuse(p) \/ Authenticate(p)
               \/ TurnAway(p) \/ BuildFails(p) \/ GoOnAnonymously(p) \/ Start(p)
      PROVE  UNCHANGED vars
  BY <1>2 DEF Serve, Check, Grant, Refuse, Authenticate, TurnAway, BuildFails,
              GoOnAnonymously, Start
<1>3. ASSUME NEW p \in Places, NEW t \in Tokens, Answer(p, t) PROVE Next
  BY <1>3 DEF Answer, Next
<1>4. ASSUME NEW p \in Places, Present(p) \/ Look(p) \/ Accept(p) PROVE Next
  BY <1>0, <1>4 DEF Present, Look, Accept, Next
<1>5. ASSUME NEW x \in Sites, LogOut(x) \/ EndSession(x) \/ SessionLapses(x)
      PROVE  UNCHANGED vars
  BY <1>5 DEF LogOut, EndSession, SessionLapses
<1>6. ASSUME LoggedOut \/ Reassociate \/ SwitchMaintenance PROVE UNCHANGED vars
  BY <1>6 DEF LoggedOut, Reassociate, SwitchMaintenance
<1>7. ASSUME Elsewhere PROVE Next
  BY <1>7 DEF Elsewhere, Next
<1> QED
  BY <1>1, <1>2, <1>3, <1>4, <1>5, <1>6, <1>7 DEF SsoNext, Follow

\* Logins, silent or not, with their redirects, sessions, markers and logouts,
\* only ever do to tokens and nonces what BrokerToken allows, so that every
\* property proved of BrokerToken holds of the deployment as a whole.
THEOREM LoginsUseTheBroker == SsoSpec => Spec
<1>1. SsoInit => Init
  BY DEF SsoInit
<1> QED
  BY <1>1, SsoStepIsBrokerStep, PTL DEF SsoSpec, Spec

\* In particular the tokens that logins use keep the promise of OneTimeToken: each is issued
\* once and accepted at most once, and worthless afterwards, unless two requests present it
\* at the same time.
THEOREM LoginsKeepThePromise == SsoSpec => ImplementsOneTimeToken
  BY LoginsUseTheBroker, Implements

-------------------------------------------------------------------------------
(* SatelliteLogin: types.                                                  *)

SsoTypes ==
  /\ around \in Surroundings
  /\ sessions \subseteq Sites
  /\ markers \subseteq Places
  /\ visit \in [Places -> VisitState]
  /\ logout \in LogoutState
  /\ associated \in BOOLEAN
  /\ maintained \in BOOLEAN
  /\ strays \subseteq Sites \cup minted
  /\ loggedIn \in BOOLEAN

LEMMA VisitStates ==
  /\ \A name \in {"idle", "page", "ask", "login", "consume"} :
       At(name) \in VisitState /\ At(name).at = name
  /\ \A b \in BOOLEAN : /\ [at |-> "granted", stray |-> b] \in VisitState
                        /\ [at |-> "start", stray |-> b] \in VisitState
  /\ \A t \in Tokens \cup {None} : [at |-> "return", token |-> t] \in VisitState
  BY DEF VisitState, At

LEMMA Moved ==
  ASSUME visit \in [Places -> VisitState], NEW p \in Places,
         NEW state \in VisitState, Moves(p, state)
  PROVE  /\ visit' \in [Places -> VisitState]
         /\ visit'[p] = state
         /\ \A q \in Places : q # p => visit'[q] = visit[q]
  BY DEF Moves

LEMMA HubIsSite == \A p \in Places : HubOf(p) \in Sites /\ p \in Sites
  BY DEF Places, Sites, HubOf

LEMMA LessLeft ==
  ASSUME logout \in LogoutState, logout # Quiet, NEW x
  PROVE  LET less == [logout EXCEPT !.left = @ \ {x}]
         IN  less \in LogoutState /\ less # Quiet /\ less.left = logout.left \ {x}
<1>1. logout \in [at : {"ending"}, origin : Sites, left : SUBSET Sites]
  BY DEF LogoutState
<1> DEFINE less == [logout EXCEPT !.left = @ \ {x}]
<1>2. less \in [at : {"ending"}, origin : Sites, left : SUBSET Sites]
      /\ less.left = logout.left \ {x}
  BY <1>1
<1>3. less.at = "ending" /\ Quiet.at = "quiet"
  BY <1>1 DEF Quiet
<1> QED
  BY <1>2, <1>3 DEF LogoutState

LEMMA BeginsTypes ==
  ASSUME SsoTypes, NEW x \in Sites, NEW b \in BOOLEAN, Begins(x, b)
  PROVE  /\ sessions' \subseteq Sites
         /\ strays' \subseteq Sites \cup minted
         /\ logout' \in LogoutState
  BY LessLeft DEF SsoTypes, Begins

LEMMA SsoTypesInit == SsoInit => SsoTypes
  BY VisitStates DEF SsoInit, SsoTypes, LogoutState, Init

LEMMA SsoTypesStep == IInv /\ SsoTypes /\ [SsoNext]_ssoVars => SsoTypes'
<1> SUFFICES ASSUME IInv, SsoTypes, [SsoNext]_ssoVars PROVE SsoTypes'
  OBVIOUS
<1>0. TypeOK /\ visit \in [Places -> VisitState]
  BY DEF IInv, SsoTypes
<1>1. ASSUME NEW p \in Places, NEW state \in VisitState, Moves(p, state),
             UNCHANGED <<around, minted, sessions, logout, associated,
                         maintained, strays, loggedIn>>,
             markers' \subseteq markers \cup {p}
      PROVE  SsoTypes'
  BY <1>0, <1>1, Moved DEF SsoTypes
<1>2. ASSUME NEW p \in Places,
             Visit(p) \/ ClickLogin(p) \/ Serve(p) \/ Check(p) \/ TurnAway(p)
      PROVE  SsoTypes'
  BY <1>1, <1>2, VisitStates
     DEF Visit, ClickLogin, Serve, Check, TurnAway, vars
<1>3. ASSUME NEW p \in Places, NEW t \in Tokens, Reopen(p, t) PROVE SsoTypes'
  BY <1>1, <1>3, VisitStates DEF Reopen, vars
<1>4. ASSUME NEW p \in Places,
             Refuse(p) \/ BuildFails(p) \/ GoOnAnonymously(p)
      PROVE  SsoTypes'
  BY <1>1, <1>4, VisitStates DEF Refuse, BuildFails, GoOnAnonymously, Marked, vars
<1>5. ASSUME NEW p \in Places, Grant(p) PROVE SsoTypes'
  <2>1. Tainted(HubOf(p)) \in BOOLEAN
    BY DEF Tainted
  <2>2. [at |-> "granted", stray |-> Tainted(HubOf(p))] \in VisitState
    BY <2>1, VisitStates
  <2> QED
    BY <1>1, <1>5, <2>2 DEF Grant, vars
<1>6. ASSUME NEW p \in Places, Authenticate(p) PROVE SsoTypes'
  <2>1. /\ (logout # Quiet) \in BOOLEAN
        /\ (loggedIn \/ logout = Quiet) \in BOOLEAN
    OBVIOUS
  <2>2. [at |-> "granted", stray |-> logout # Quiet] \in VisitState
    BY <2>1, VisitStates
  <2>3. visit' \in [Places -> VisitState]
    BY <1>0, <1>6, <2>2, Moved DEF Authenticate
  <2>4. /\ sessions' \subseteq Sites
        /\ strays' \subseteq Sites \cup minted
        /\ logout' \in LogoutState
    BY <1>6, <2>1, HubIsSite, BeginsTypes DEF Authenticate
  <2>5. loggedIn' \in BOOLEAN
    BY <1>6, <2>1 DEF Authenticate
  <2> QED
    BY <1>6, <2>3, <2>4, <2>5 DEF Authenticate, SsoTypes, vars
<1>7. ASSUME NEW p \in Places, NEW t \in Tokens, Answer(p, t) PROVE SsoTypes'
  <2>1. visit' \in [Places -> VisitState]
    BY <1>0, <1>7, VisitStates, Moved DEF Answer
  <2>2. strays' \subseteq Sites \cup minted'
    BY <1>7 DEF Answer, BuildBrokerRedirect, SsoTypes
  <2> QED
    BY <1>7, <2>1, <2>2 DEF Answer, SsoTypes
<1>8. ASSUME NEW p \in Places, Present(p) PROVE SsoTypes'
  BY <1>1, <1>8, VisitStates DEF Present, ConsumeBrokerToken, Begin
<1>9. ASSUME NEW p \in Places, Look(p) PROVE SsoTypes'
  <2>1. CASE request[p].token \in nonces
    BY <1>9, <2>1 DEF Look, LookUpNonce, SsoTypes
  <2>2. CASE request[p].token \notin nonces
    BY <1>1, <1>9, <2>2, VisitStates DEF Look, LookUpNonce, Marked
  <2> QED
    BY <2>1, <2>2
<1>10. ASSUME NEW p \in Places, Accept(p) PROVE SsoTypes'
  <2>1. Tainted(request[p].token) \in BOOLEAN
    BY DEF Tainted
  <2>2. [at |-> "start", stray |-> Tainted(request[p].token)] \in VisitState
    BY <2>1, VisitStates
  <2> QED
    BY <1>1, <1>10, <2>2 DEF Accept, DeleteNonce
<1>11. ASSUME NEW p \in Places, Start(p) PROVE SsoTypes'
  <2>1. visit[p].stray \in BOOLEAN
    BY <1>0, <1>11 DEF Start, VisitState
  <2>2. visit' \in [Places -> VisitState] /\ markers' \subseteq Places
    BY <1>0, <1>11, VisitStates, Moved DEF Start, Marked, SsoTypes
  <2>3. minted' = minted /\ UNCHANGED <<around, associated, maintained, loggedIn>>
    BY <1>11 DEF Start, vars
  <2>4. CASE associated
    <3>1. (visit[p].stray \/ logout # Quiet) \in BOOLEAN
      BY <2>1
    <3>2. /\ sessions' \subseteq Sites
          /\ strays' \subseteq Sites \cup minted
          /\ logout' \in LogoutState
      BY <1>11, <2>4, <3>1, HubIsSite, BeginsTypes DEF Start
    <3> QED
      BY <2>2, <2>3, <3>2 DEF SsoTypes
  <2>5. CASE ~associated
    BY <1>11, <2>2, <2>3, <2>5 DEF Start, SsoTypes
  <2> QED
    BY <2>4, <2>5
<1>12. ASSUME NEW p \in Places, MarkerExpires(p) PROVE SsoTypes'
  BY <1>12 DEF MarkerExpires, SsoTypes, vars
<1>13. ASSUME NEW x \in Sites, LogOut(x) PROVE SsoTypes'
  <2>1. [at |-> "ending", origin |-> x, left |-> ToDelete(x)] \in LogoutState
    BY DEF LogoutState, ToDelete, SsoTypes
  <2> QED
    BY <1>13, <2>1 DEF LogOut, SsoTypes, vars
<1>14. ASSUME NEW x \in Sites, EndSession(x) PROVE SsoTypes'
  <2>1. logout' \in LogoutState
    BY <1>14, LessLeft DEF EndSession, SsoTypes
  <2> QED
    BY <1>14, <2>1 DEF EndSession, SsoTypes, vars
<1>15. ASSUME LoggedOut PROVE SsoTypes'
  <2>1. \A q \in Places : Outdated(visit[q]) \in VisitState
    <3> SUFFICES ASSUME NEW q \in Places PROVE Outdated(visit[q]) \in VisitState
      OBVIOUS
    <3>1. CASE visit[q] \in [at : {"granted", "start"}, stray : BOOLEAN]
      BY <3>1 DEF Outdated, VisitState
    <3>2. CASE visit[q].at \notin {"granted", "start"}
      BY <1>0, <3>2 DEF Outdated
    <3> QED
      BY <1>0, <3>1, <3>2 DEF VisitState
  <2>2. visit' \in [Places -> VisitState]
    BY <1>15, <2>1 DEF LoggedOut
  <2> QED
    BY <1>15, <2>2 DEF LoggedOut, SsoTypes, LogoutState, vars
<1>16. ASSUME NEW x \in Sites, SessionLapses(x) PROVE SsoTypes'
  BY <1>16 DEF SessionLapses, SsoTypes, vars
<1>17. ASSUME Reassociate \/ SwitchMaintenance PROVE SsoTypes'
  BY <1>17 DEF Reassociate, SwitchMaintenance, SsoTypes, vars
<1>18. ASSUME Elsewhere PROVE SsoTypes'
  BY <1>18 DEF Elsewhere, ssoOnly, SsoTypes, DropNonce, Expire, VerifyBrokerNonce,
               Begin, LookUpNonce, DeleteNonce
<1>19. CASE UNCHANGED ssoVars
  BY <1>19 DEF ssoVars, ssoOnly, vars, SsoTypes
<1> QED
  BY <1>2, <1>3, <1>4, <1>5, <1>6, <1>7, <1>8, <1>9, <1>10, <1>11, <1>12, <1>13,
     <1>14, <1>15, <1>16, <1>17, <1>18, <1>19 DEF SsoNext, Follow

LEMMA SsoIInvAlways == SsoSpec => [](IInv /\ SsoTypes)
<1>1. SsoInit => IInv /\ SsoTypes
  BY IInvInit, SsoTypesInit DEF SsoInit
<1>2. IInv /\ SsoTypes /\ [SsoNext]_ssoVars => (IInv /\ SsoTypes)'
  BY IInvStep, SsoTypesStep, SsoStepIsBrokerStep
<1> QED
  BY <1>1, <1>2, PTL DEF SsoSpec

\* Type correctness of the composition; that a spent nonce never returns to
\* the cache is part of it.
THEOREM SsoTypeCorrect == SsoSpec => []SsoTypeOK
<1>1. IInv /\ SsoTypes => SsoTypeOK
  BY DEF IInv, SsoTypes, SsoTypeOK
<1> QED
  BY <1>1, SsoIInvAlways, PTL

-------------------------------------------------------------------------------
(* SatelliteLogin: a logout reaches every host.                            *)

\* Until somebody logs in again after a logout, whatever could still start a
\* session is a stray: the tokens that were built, and the navigations that
\* were granted a token or have spent one.  While a logout runs, the sessions
\* it has not listed are strays.
OnTheWay(p) == visit[p].at \in {"granted", "start"}

AllFromBefore ==
  /\ sessions \subseteq strays
  /\ minted \subseteq strays
  /\ \A p \in Places : OnTheWay(p) => visit[p].stray

LogoutInv ==
  /\ logout # Quiet => sessions \subseteq logout.left \cup strays
  /\ logout = Quiet /\ ~loggedIn => AllFromBefore

LEMMA LogoutInvInit == SsoInit => LogoutInv
  BY VisitStates DEF SsoInit, Init, LogoutInv, AllFromBefore, OnTheWay

\* A step that neither starts a session nor builds a token, and after which no
\* more is on its way than before.
LEMMA NothingBegins ==
  ASSUME LogoutInv, sessions' \subseteq sessions,
         UNCHANGED <<minted, strays, logout, loggedIn>>,
         \A q \in Places : OnTheWay(q)' => visit'[q] = visit[q]
  PROVE  LogoutInv'
  BY DEF LogoutInv, AllFromBefore, OnTheWay

LEMMA ToUneventful ==
  ASSUME SsoTypes, LogoutInv, NEW p \in Places, NEW state \in VisitState,
         state.at \notin {"granted", "start"}, Moves(p, state),
         UNCHANGED <<minted, sessions, strays, logout, loggedIn>>
  PROVE  LogoutInv'
<1>1. \A q \in Places : OnTheWay(q)' => visit'[q] = visit[q]
  BY Moved DEF SsoTypes, OnTheWay
<1> QED
  BY <1>1, NothingBegins

\* A session that begins is a stray while a logout runs, and after one unless
\* somebody has logged in.
LEMMA BeginsKeeps ==
  ASSUME SsoTypes, LogoutInv, NEW x \in Sites, NEW b \in BOOLEAN, Begins(x, b),
         logout # Quiet => b
  PROVE  /\ logout' = Quiet <=> logout = Quiet
         /\ logout' # Quiet => sessions' \subseteq logout'.left \cup strays'
<1>1. CASE x \in sessions
  BY <1>1 DEF Begins, LogoutInv
<1>2. CASE x \notin sessions /\ logout = Quiet
  BY <1>2 DEF Begins
<1>3. CASE x \notin sessions /\ logout # Quiet
  <2>1. /\ logout' # Quiet
        /\ logout'.left = logout.left \ {x}
        /\ strays' = strays \cup {x}
    BY <1>3, LessLeft DEF Begins, SsoTypes
  <2> QED
    BY <1>3, <2>1 DEF Begins, LogoutInv
<1> QED
  BY <1>1, <1>2, <1>3

LEMMA LogoutInvStep ==
  IInv /\ SsoTypes /\ LogoutInv /\ [SsoNext]_ssoVars => LogoutInv'
<1> SUFFICES ASSUME IInv, SsoTypes, LogoutInv, [SsoNext]_ssoVars PROVE LogoutInv'
  OBVIOUS
<1>0. TypeOK /\ visit \in [Places -> VisitState]
  BY DEF IInv, SsoTypes
<1>2. ASSUME NEW p \in Places,
             Visit(p) \/ ClickLogin(p) \/ Serve(p) \/ Check(p) \/ TurnAway(p)
      PROVE  LogoutInv'
  BY <1>2, ToUneventful, VisitStates
     DEF Visit, ClickLogin, Serve, Check, TurnAway, vars
<1>3. ASSUME NEW p \in Places,
             Refuse(p) \/ BuildFails(p) \/ GoOnAnonymously(p)
               \/ (\E t \in Tokens : Reopen(p, t))
      PROVE  LogoutInv'
  BY <1>3, ToUneventful, VisitStates
     DEF Refuse, BuildFails, GoOnAnonymously, Reopen, vars
<1>4. ASSUME NEW p \in Places, Grant(p) PROVE LogoutInv'
  <2> DEFINE state == [at |-> "granted", stray |-> Tainted(HubOf(p))]
  <2>1. state \in VisitState /\ state.stray = Tainted(HubOf(p))
    BY VisitStates DEF Tainted
  <2>2. Moves(p, state)
    BY <1>4 DEF Grant
  <2> HIDE DEF state
  <2>3. visit'[p] = state /\ \A q \in Places : q # p => visit'[q] = visit[q]
    BY <1>0, <2>1, <2>2, Moved
  <2>4. UNCHANGED <<minted, sessions, strays, logout, loggedIn>>
        /\ HubOf(p) \in sessions
    BY <1>4 DEF Grant, MayBeAnswered, vars
  <2>5. sessions \subseteq strays => state.stray
    BY <2>1, <2>4 DEF Tainted
  <2> QED
    BY <2>3, <2>4, <2>5 DEF LogoutInv, AllFromBefore, OnTheWay
<1>5. ASSUME NEW p \in Places, Authenticate(p) PROVE LogoutInv'
  <2>1. Begins(HubOf(p), logout # Quiet) /\ (logout # Quiet) \in BOOLEAN
    BY <1>5 DEF Authenticate
  <2>2. /\ logout' = Quiet <=> logout = Quiet
        /\ logout' # Quiet => sessions' \subseteq logout'.left \cup strays'
    BY <2>1, HubIsSite, BeginsKeeps
  <2>3. logout = Quiet => loggedIn'
    BY <1>5 DEF Authenticate
  <2> QED
    BY <2>2, <2>3 DEF LogoutInv
<1>6. ASSUME NEW p \in Places, NEW t \in Tokens, Answer(p, t) PROVE LogoutInv'
  <2>1. /\ [at |-> "return", token |-> t] \in VisitState
        /\ [at |-> "return", token |-> t].at \notin {"granted", "start"}
        /\ Moves(p, [at |-> "return", token |-> t])
    BY <1>6, VisitStates DEF Answer
  <2>2. \A q \in Places : OnTheWay(q)' => visit'[q] = visit[q]
    BY <1>0, <2>1, Moved DEF OnTheWay
  <2>3. /\ UNCHANGED <<sessions, logout, loggedIn>>
        /\ strays \subseteq strays'
        /\ minted' = minted \cup {t}
        /\ visit[p].stray => t \in strays'
        /\ OnTheWay(p)
    BY <1>6 DEF Answer, BuildBrokerRedirect, OnTheWay
  <2> QED
    BY <2>2, <2>3 DEF LogoutInv, AllFromBefore, OnTheWay
<1>7. ASSUME NEW p \in Places, Present(p) PROVE LogoutInv'
  BY <1>7, ToUneventful, VisitStates DEF Present, ConsumeBrokerToken, Begin
<1>8. ASSUME NEW p \in Places, Look(p) PROVE LogoutInv'
  <2>1. CASE request[p].token \in nonces
    BY <1>8, <2>1, NothingBegins DEF Look, LookUpNonce
  <2>2. CASE request[p].token \notin nonces
    BY <1>8, <2>2, ToUneventful, VisitStates DEF Look, LookUpNonce
  <2> QED
    BY <2>1, <2>2
<1>9. ASSUME NEW p \in Places, Accept(p) PROVE LogoutInv'
  <2> DEFINE state == [at |-> "start", stray |-> Tainted(request[p].token)]
  <2>1. state \in VisitState /\ state.stray = Tainted(request[p].token)
    BY VisitStates DEF Tainted
  <2>2. Moves(p, state)
    BY <1>9 DEF Accept
  <2> HIDE DEF state
  <2>3. visit'[p] = state /\ \A q \in Places : q # p => visit'[q] = visit[q]
    BY <1>0, <2>1, <2>2, Moved
  <2>4. UNCHANGED <<minted, sessions, strays, logout, loggedIn>>
    BY <1>9 DEF Accept, DeleteNonce
  <2>5. request[p].token \in minted
    BY <1>9, PlacesAssumption DEF Accept, DeleteNonce, IInv, Known
  <2>6. minted \subseteq strays => state.stray
    BY <2>1, <2>5 DEF Tainted
  <2> QED
    BY <2>3, <2>4, <2>6 DEF LogoutInv, AllFromBefore, OnTheWay
<1>10. ASSUME NEW p \in Places, Start(p) PROVE LogoutInv'
  <2> DEFINE stray == visit[p].stray \/ logout # Quiet
  <2>1. /\ Moves(p, At("page")) /\ UNCHANGED <<minted, loggedIn>>
        /\ OnTheWay(p)
    BY <1>10 DEF Start, vars, OnTheWay
  <2>2. \A q \in Places : OnTheWay(q)' => visit'[q] = visit[q]
    BY <1>0, <2>1, VisitStates, Moved DEF OnTheWay
  <2>3. CASE ~associated
    BY <1>10, <2>1, <2>2, <2>3, NothingBegins DEF Start
  <2>4. CASE associated
    <3>1. visit[p].stray \in BOOLEAN
      BY <1>0, <1>10 DEF Start, VisitState
    <3>2. Begins(p, stray) /\ stray \in BOOLEAN
      BY <1>10, <2>4, <3>1 DEF Start
    <3>3. /\ logout' = Quiet <=> logout = Quiet
          /\ logout' # Quiet => sessions' \subseteq logout'.left \cup strays'
      BY <3>2, HubIsSite, BeginsKeeps
    <3>4. ASSUME logout' = Quiet, ~loggedIn' PROVE AllFromBefore'
      <4>1. AllFromBefore
        BY <2>1, <3>3, <3>4 DEF LogoutInv
      <4>2. visit[p].stray
        BY <2>1, <4>1 DEF AllFromBefore
      <4>3. sessions' = sessions \cup {p} /\ strays \subseteq strays'
            /\ (p \in sessions \/ p \in strays')
        BY <3>2, <4>2 DEF Begins
      <4> QED
        BY <2>1, <2>2, <4>1, <4>3 DEF AllFromBefore, OnTheWay
    <3> QED
      BY <3>3, <3>4 DEF LogoutInv
  <2> QED
    BY <2>3, <2>4
<1>11. ASSUME NEW x \in Sites, LogOut(x) PROVE LogoutInv'
  <2>1. logout' = [at |-> "ending", origin |-> x, left |-> sessions]
        /\ UNCHANGED sessions
    BY <1>11 DEF LogOut, ToDelete
  <2>2. logout' # Quiet /\ logout'.left = sessions
    BY <2>1 DEF Quiet
  <2> QED
    BY <2>1, <2>2 DEF LogoutInv
<1>12. ASSUME NEW x \in Sites, EndSession(x) PROVE LogoutInv'
  <2>1. logout' # Quiet /\ logout'.left = logout.left \ {x}
    BY <1>12, LessLeft DEF EndSession, SsoTypes
  <2> QED
    BY <1>12, <2>1 DEF EndSession, LogoutInv
<1>13. ASSUME LoggedOut PROVE LogoutInv'
  <2>1. /\ logout' = Quiet /\ minted' = minted /\ sessions' = sessions
        /\ strays' = strays \cup minted
        /\ sessions \subseteq strays
        /\ visit' = [q \in Places |-> Outdated(visit[q])]
    BY <1>13 DEF LoggedOut, LogoutInv, vars
  <2>2. ASSUME NEW q \in Places, OnTheWay(q)' PROVE visit'[q].stray
    <3>1. visit'[q] = Outdated(visit[q]) /\ visit[q] \in VisitState
      BY <1>0, <2>1
    <3>2. CASE visit[q] \in [at : {"granted", "start"}, stray : BOOLEAN]
      BY <3>1, <3>2 DEF Outdated
    <3>3. CASE visit[q].at \notin {"granted", "start"}
      BY <2>2, <3>1, <3>3 DEF Outdated, OnTheWay
    <3> QED
      BY <3>1, <3>2, <3>3 DEF VisitState
  <2> QED
    BY <2>1, <2>2 DEF LogoutInv, AllFromBefore
<1>14. ASSUME NEW x \in Sites, SessionLapses(x) PROVE LogoutInv'
  BY <1>14, NothingBegins DEF SessionLapses, vars
<1>15. ASSUME \/ Reassociate \/ SwitchMaintenance
              \/ \E p \in Places : MarkerExpires(p)
       PROVE  LogoutInv'
  BY <1>15, NothingBegins DEF Reassociate, SwitchMaintenance, MarkerExpires, vars
<1>16. ASSUME Elsewhere PROVE LogoutInv'
  BY <1>16, NothingBegins
     DEF Elsewhere, ssoOnly, DropNonce, Expire, VerifyBrokerNonce, Begin,
         LookUpNonce, DeleteNonce
<1>17. CASE UNCHANGED ssoVars
  BY <1>17, NothingBegins DEF ssoVars, ssoOnly, vars
<1> QED
  BY <1>2, <1>3, <1>4, <1>5, <1>6, <1>7, <1>8, <1>9, <1>10, <1>11, <1>12, <1>13,
     <1>14, <1>15, <1>16, <1>17 DEF SsoNext, Follow

\* "a logout on any host, including a broker-client satellite, propagates to
\* all the others" (logout_view): after it, and until the person logs in again,
\* the only sessions are those begun while it ran or through an older token.
THEOREM LogoutReaches == SsoSpec => []LogoutReachesEveryHost
<1>1. SsoInit => LogoutInv
  BY LogoutInvInit
<1>2. LogoutInv => LogoutReachesEveryHost
  BY DEF LogoutInv, AllFromBefore, LogoutReachesEveryHost
<1>3. (IInv /\ SsoTypes) /\ LogoutInv /\ [SsoNext]_ssoVars => LogoutInv'
  BY LogoutInvStep
<1> QED
  BY <1>1, <1>2, <1>3, SsoIInvAlways, PTL DEF SsoSpec

-------------------------------------------------------------------------------
(* SatelliteLogin: navigations do not go on for ever.                      *)

\* Initially no consumer is at work.
LEMMA ConsumersInit == SsoInit => ConsumersAnswer
  BY PlacesAssumption, VisitStates DEF SsoInit, Init, ConsumersAnswer

\* Steps at a place that is not at the consumer, nor comes to it.
LEMMA ConsumersIdle ==
  ASSUME SsoTypes, ConsumersAnswer, NEW p \in Places, NEW state \in VisitState,
         Moves(p, state), visit[p] # At("consume"), state.at # "consume",
         state.at = "return" => state.token \in minted' \cup {None},
         request' = request, minted \subseteq minted'
  PROVE  ConsumersAnswer'
<1>1. visit'[p] = state /\ \A q \in Places : q # p => visit'[q] = visit[q]
  BY Moved DEF SsoTypes
<1>2. state # At("consume")
  BY VisitStates
<1>3. QED
  BY <1>1, <1>2 DEF ConsumersAnswer

\* Steps that move nobody.
LEMMA ConsumersStay ==
  ASSUME ConsumersAnswer, visit' = visit, minted \subseteq minted',
         \A p \in Places : request'[p] = Idle <=> request[p] = Idle
  PROVE  ConsumersAnswer'
  BY DEF ConsumersAnswer

\* Steps of the consumer of a place.
LEMMA ConsumersWork ==
  ASSUME SsoTypes, ConsumersAnswer, NEW p \in Places, NEW state \in VisitState,
         Moves(p, state), state.at # "return", minted' = minted,
         state = At("consume") <=> request'[p] # Idle,
         \A q \in Places : q # p => request'[q] = request[q]
  PROVE  ConsumersAnswer'
<1>1. visit'[p] = state /\ \A q \in Places : q # p => visit'[q] = visit[q]
  BY Moved DEF SsoTypes
<1>2. QED
  BY <1>1 DEF ConsumersAnswer

\* The lookup of a nonce: the consumer goes on, or the page is asked for again.
LEMMA LookMoves ==
  ASSUME TypeOK, NEW p \in Places, Look(p)
  PROVE  /\ request[p].pc = "lookup" /\ \A q \in Places : q # p => request'[q] = request[q]
         /\ \/ request'[p].pc = "delete" /\ request'[p] # Idle /\ UNCHANGED <<markers, visit>>
            \/ request'[p] = Idle /\ markers' = markers \cup {p} /\ Moves(p, At("page"))
<1>1. p \in Requests /\ LookUpNonce(p)
  BY PlacesAssumption DEF Look
<1>2. request' = [request EXCEPT ![p] = IF request[p].token \in nonces
                                        THEN [request[p] EXCEPT !.pc = "delete"] ELSE Idle]
      /\ request[p].pc = "lookup" /\ request \in [Requests -> RequestState]
  BY <1>1 DEF LookUpNonce, TypeOK
<1>3. CASE request[p].token \in nonces
  <2>1. request'[p] = [request[p] EXCEPT !.pc = "delete"]
    BY <1>1, <1>2, <1>3
  <2>2. request[p] \in [pc : {"lookup", "delete"}, token : Tokens, late : BOOLEAN]
    BY <1>1, <1>2 DEF RequestState, Idle
  <2>3. request'[p].pc = "delete"
    BY <2>1, <2>2
  <2>4. request'[p] # Idle
    BY <2>3 DEF Idle
  <2>5. QED
    BY <1>2, <1>3, <2>3, <2>4 DEF Look
<1>4. CASE request[p].token \notin nonces
  BY <1>1, <1>2, <1>4 DEF Look, Marked
<1>5. QED
  BY <1>2, <1>3, <1>4

\* What other applications do to tokens moves no navigation.
LEMMA ElsewhereStays ==
  ASSUME TypeOK, Elsewhere
  PROVE  UNCHANGED <<visit, markers, minted>> /\ \A p \in Places : request'[p] = request[p]
  BY PlacesAssumption
     DEF Elsewhere, ssoOnly, DropNonce, Expire, VerifyBrokerNonce, Begin, LookUpNonce,
         DeleteNonce, TypeOK

\* Every step keeps consumers and navigations together.
LEMMA ConsumersStep ==
  IInv /\ SsoTypes /\ ConsumersAnswer /\ [SsoNext]_ssoVars => ConsumersAnswer'
<1> SUFFICES ASSUME IInv, SsoTypes, ConsumersAnswer, [SsoNext]_ssoVars
             PROVE  ConsumersAnswer'
  OBVIOUS
<1>0. TypeOK /\ visit \in [Places -> VisitState] /\ Places \subseteq Requests
  BY PlacesAssumption DEF IInv, SsoTypes
<1>1. ASSUME NEW p \in Places,
             Visit(p) \/ ClickLogin(p) \/ Serve(p) \/ Check(p) \/ TurnAway(p)
      PROVE  ConsumersAnswer'
  BY <1>1, ConsumersIdle, VisitStates DEF Visit, ClickLogin, Serve, Check, TurnAway, vars
<1>2. ASSUME NEW p \in Places,
             Refuse(p) \/ BuildFails(p) \/ GoOnAnonymously(p)
               \/ (\E t \in Tokens : Reopen(p, t))
      PROVE  ConsumersAnswer'
  BY <1>2, ConsumersIdle, VisitStates
     DEF Refuse, BuildFails, GoOnAnonymously, Reopen, vars
<1>3. ASSUME NEW p \in Places, Grant(p) \/ Authenticate(p)
      PROVE  ConsumersAnswer'
  <2>1. PICK b \in BOOLEAN : Moves(p, [at |-> "granted", stray |-> b])
    BY <1>3 DEF Grant, Authenticate, Tainted
  <2>2. visit[p] # At("consume") /\ UNCHANGED <<request, minted>>
    BY <1>3, VisitStates DEF Grant, Authenticate, vars
  <2> QED
    BY <2>1, <2>2, ConsumersIdle, VisitStates
<1>4. ASSUME NEW p \in Places, NEW t \in Tokens, Answer(p, t)
      PROVE  ConsumersAnswer'
  <2>1. visit[p] # At("consume") /\ request' = request /\ minted' = minted \cup {t}
        /\ Moves(p, [at |-> "return", token |-> t])
    BY <1>4, VisitStates DEF Answer, BuildBrokerRedirect
  <2>2. [at |-> "return", token |-> t] \in VisitState
    BY VisitStates
  <2> QED
    BY <2>1, <2>2, ConsumersIdle
<1>5. ASSUME NEW p \in Places, Start(p) PROVE ConsumersAnswer'
  BY <1>5, ConsumersIdle, VisitStates DEF Start, vars
<1>6. ASSUME NEW p \in Places, Present(p) PROVE ConsumersAnswer'
  <2>1. /\ request' = [request EXCEPT ![p] = [pc |-> "lookup", token |-> visit[p].token,
                                              late |-> visit[p].token \in spent]]
        /\ minted' = minted /\ Moves(p, At("consume"))
    BY <1>6 DEF Present, ConsumeBrokerToken, Begin
  <2>2. request'[p] # Idle /\ \A q \in Places : q # p => request'[q] = request[q]
    BY <1>0, <2>1 DEF TypeOK, Idle
  <2> QED
    BY <2>1, <2>2, ConsumersWork, VisitStates
<1>7. ASSUME NEW p \in Places, Look(p) PROVE ConsumersAnswer'
  <2>1. minted' = minted /\ visit[p] = At("consume") /\ request[p] # Idle
    BY <1>7 DEF Look, LookUpNonce, ConsumersAnswer
  <2>2. CASE request'[p].pc = "delete" /\ request'[p] # Idle /\ UNCHANGED <<markers, visit>>
    BY <1>0, <1>7, <2>1, <2>2, LookMoves, ConsumersStay
  <2>3. CASE request'[p] = Idle /\ Moves(p, At("page"))
    BY <1>0, <1>7, <2>1, <2>3, LookMoves, ConsumersWork, VisitStates
  <2> QED
    BY <1>0, <1>7, <2>2, <2>3, LookMoves
<1>8. ASSUME NEW p \in Places, Accept(p) PROVE ConsumersAnswer'
  <2>1. PICK b \in BOOLEAN : Moves(p, [at |-> "start", stray |-> b])
    BY <1>8 DEF Accept, Tainted
  <2>2. request' = [request EXCEPT ![p] = Idle] /\ minted' = minted
    BY <1>8 DEF Accept, DeleteNonce
  <2>3. request'[p] = Idle /\ \A q \in Places : q # p => request'[q] = request[q]
    BY <1>0, <2>2 DEF TypeOK
  <2> DEFINE state == [at |-> "start", stray |-> b]
  <2>4. state \in VisitState /\ state.at = "start" /\ Moves(p, state)
    BY <2>1, VisitStates
  <2> HIDE DEF state
  <2>5. state # At("consume")
    BY <2>4, VisitStates
  <2> QED
    BY <2>2, <2>3, <2>4, <2>5, ConsumersWork
<1>9. ASSUME NEW p \in Places, MarkerExpires(p) PROVE ConsumersAnswer'
  BY <1>9, ConsumersStay DEF MarkerExpires, vars
<1>10. ASSUME NEW x \in Sites, LogOut(x) \/ EndSession(x) \/ SessionLapses(x)
       PROVE  ConsumersAnswer'
  BY <1>10, ConsumersStay DEF LogOut, EndSession, SessionLapses, vars
<1>11. ASSUME LoggedOut PROVE ConsumersAnswer'
  <2>1. visit' = [q \in Places |-> Outdated(visit[q])] /\ UNCHANGED <<request, minted>>
    BY <1>11 DEF LoggedOut, vars
  <2>2. \A q \in Places : /\ Outdated(visit[q]).at = visit[q].at
                          /\ visit[q].at \in {"return", "consume"}
                               => Outdated(visit[q]) = visit[q]
    BY <1>0 DEF Outdated, VisitState
  <2>3. \A q \in Places : visit'[q] = At("consume") <=> visit[q] = At("consume")
    BY <2>1, <2>2, VisitStates
  <2> QED
    BY <2>1, <2>2, <2>3 DEF ConsumersAnswer
<1>12. ASSUME Reassociate \/ SwitchMaintenance PROVE ConsumersAnswer'
  BY <1>12, ConsumersStay DEF Reassociate, SwitchMaintenance, vars
<1>13. ASSUME Elsewhere PROVE ConsumersAnswer'
  BY <1>0, <1>13, ElsewhereStays, ConsumersStay
<1>14. CASE UNCHANGED ssoVars
  BY <1>14, ConsumersStay DEF ssoVars, ssoOnly, vars
<1> QED
  BY <1>1, <1>2, <1>3, <1>4, <1>5, <1>6, <1>7, <1>8, <1>9, <1>10, <1>11, <1>12, <1>13,
     <1>14 DEF SsoNext, Follow

LEMMA ConsumersAlways == SsoSpec => [](IInv /\ SsoTypes /\ ConsumersAnswer)
<1>1. IInv /\ SsoTypes /\ ConsumersAnswer /\ [SsoNext]_ssoVars
        => (IInv /\ SsoTypes /\ ConsumersAnswer)'
  BY IInvStep, SsoTypesStep, SsoStepIsBrokerStep, ConsumersStep
<1>2. SsoInit => IInv /\ SsoTypes /\ ConsumersAnswer
  BY IInvInit, SsoTypesInit, ConsumersInit DEF SsoInit
<1> QED
  BY <1>1, <1>2, PTL DEF SsoSpec

\* The consumer of a satellite (broker_client_login) is busy exactly while a navigation
\* waits for it, so that a browser that comes back from the hub is always answered,
\* whatever other applications do with the same token meanwhile.
THEOREM ConsumersReady == SsoSpec => []ConsumersAnswer
  BY ConsumersAlways, PTL

\* What is ahead of a navigation in each of its states.
LEMMA AheadIs ==
  ASSUME visit \in [Places -> VisitState], NEW p \in Places
  PROVE  /\ Ahead(p) \in 0..8
         /\ visit[p].at = "idle" => Ahead(p) = 0
         /\ visit[p].at = "page" => Ahead(p) = IF p \in markers THEN 1 ELSE 8
         /\ visit[p].at \in {"ask", "login"} => Ahead(p) = 7
         /\ visit[p].at = "granted" => Ahead(p) = 6
         /\ visit[p].at = "return" => Ahead(p) = 5
         /\ visit[p].at = "consume" => Ahead(p) = IF request[p].pc = "lookup" THEN 4 ELSE 3
         /\ visit[p].at = "start" => Ahead(p) = 2
<1>1. visit[p].at \in {"idle", "page", "ask", "login", "granted", "return", "consume", "start"}
  BY DEF VisitState
<1>2. QED
  BY <1>1 DEF Ahead

\* Where a navigation comes to.
LEMMA Came ==
  ASSUME SsoTypes, NEW p \in Places, NEW state \in VisitState, Moves(p, state)
  PROVE  visit' \in [Places -> VisitState] /\ visit'[p].at = state.at
  BY Moved DEF SsoTypes

\* Every redirect that is followed brings the navigation nearer to its end.
LEMMA FollowNearer ==
  ASSUME IInv, SsoTypes, SsoTypes', NEW p \in Places, Follow(p)
  PROVE  Ahead(p)' < Ahead(p)
<1>0. /\ TypeOK /\ visit \in [Places -> VisitState] /\ Places \subseteq Requests
      /\ visit' \in [Places -> VisitState]
  BY PlacesAssumption DEF IInv, SsoTypes
<1> DEFINE now == visit[p].at
           next == visit'[p].at
<1>1. ASSUME Serve(p) \/ TurnAway(p) PROVE next = "idle" /\ now \in {"page", "login"}
  BY <1>1, Came, VisitStates DEF Serve, TurnAway
<1>2. ASSUME Check(p) PROVE next = "ask" /\ now = "page" /\ p \notin markers
  BY <1>2, Came, VisitStates DEF Check
<1>3. ASSUME Grant(p) \/ Authenticate(p) PROVE next = "granted" /\ now \in {"ask", "login"}
  <2>1. PICK b \in BOOLEAN : Moves(p, [at |-> "granted", stray |-> b])
    BY <1>3 DEF Grant, Authenticate, Tainted
  <2>2. QED
    BY <1>3, <2>1, Came, VisitStates DEF Grant, Authenticate
<1>4. ASSUME Refuse(p) \/ BuildFails(p) PROVE next = "return" /\ now \in {"ask", "granted"}
  BY <1>4, Came, VisitStates DEF Refuse, BuildFails
<1>5. ASSUME NEW t \in Tokens, Answer(p, t) PROVE next = "return" /\ now = "granted"
  <2>1. [at |-> "return", token |-> t] \in VisitState
    BY VisitStates
  <2>2. QED
    BY <1>5, <2>1, Came DEF Answer
<1>6. ASSUME GoOnAnonymously(p) \/ Start(p)
      PROVE  next = "page" /\ p \in markers' /\ now \in {"return", "start"}
  BY <1>6, Came, VisitStates DEF GoOnAnonymously, Start, Marked
<1>7. ASSUME Present(p)
      PROVE  now = "return" /\ next = "consume"
  BY <1>7, Came, VisitStates DEF Present
<1>8. ASSUME Look(p)
      PROVE  /\ now = "consume" /\ request[p].pc = "lookup"
             /\ \/ next = "consume" /\ request'[p].pc # "lookup"
                \/ next = "page" /\ p \in markers'
  <2>1. now = "consume"
    BY <1>8, VisitStates DEF Look
  <2>2. CASE request'[p].pc = "delete" /\ UNCHANGED <<markers, visit>>
    BY <1>0, <1>8, <2>1, <2>2, LookMoves
  <2>3. CASE markers' = markers \cup {p} /\ Moves(p, At("page"))
    BY <1>0, <1>8, <2>1, <2>3, LookMoves, Came, VisitStates
  <2>4. QED
    BY <1>0, <1>8, <2>2, <2>3, LookMoves
<1>9. ASSUME Accept(p) PROVE next = "start" /\ now = "consume"
  <2>1. PICK b \in BOOLEAN : Moves(p, [at |-> "start", stray |-> b])
    BY <1>9 DEF Accept, Tainted
  <2>2. QED
    BY <1>9, <2>1, Came, VisitStates DEF Accept
<1>10. \/ next = "idle" /\ now \in {"page", "login"}
       \/ next = "ask" /\ now = "page" /\ p \notin markers
       \/ next = "granted" /\ now \in {"ask", "login"}
       \/ next = "return" /\ now \in {"ask", "granted"}
       \/ next = "page" /\ p \in markers' /\ now \in {"return", "start"}
       \/ next = "consume" /\ now = "return"
       \/ /\ now = "consume" /\ request[p].pc = "lookup"
          /\ \/ next = "consume" /\ request'[p].pc # "lookup"
             \/ next = "page" /\ p \in markers'
       \/ next = "start" /\ now = "consume"
  BY <1>1, <1>2, <1>3, <1>4, <1>5, <1>6, <1>7, <1>8, <1>9 DEF Follow
<1>11. /\ Ahead(p)' \in 0..8
       /\ next = "idle" => Ahead(p)' = 0
       /\ next = "page" => Ahead(p)' = IF p \in markers' THEN 1 ELSE 8
       /\ next \in {"ask", "login"} => Ahead(p)' = 7
       /\ next = "granted" => Ahead(p)' = 6
       /\ next = "return" => Ahead(p)' = 5
       /\ next = "consume" => Ahead(p)' = IF request'[p].pc = "lookup" THEN 4 ELSE 3
       /\ next = "start" => Ahead(p)' = 2
  <2>1. next \in {"idle", "page", "ask", "login", "granted", "return", "consume", "start"}
    BY <1>0 DEF VisitState
  <2>2. QED
    BY <2>1 DEF Ahead
<1>12. /\ Ahead(p) \in 0..8
       /\ now = "page" => Ahead(p) = IF p \in markers THEN 1 ELSE 8
       /\ now \in {"ask", "login"} => Ahead(p) = 7
       /\ now = "granted" => Ahead(p) = 6
       /\ now = "return" => Ahead(p) = 5
       /\ now = "consume" => Ahead(p) = IF request[p].pc = "lookup" THEN 4 ELSE 3
       /\ now = "start" => Ahead(p) = 2
  BY <1>0, AheadIs
<1> HIDE DEF now, next
<1>13. QED
  BY <1>10, <1>11, <1>12

\* What others do leaves a navigation where it is.
LEMMA AheadStays ==
  ASSUME NEW p, visit'[p].at = visit[p].at,
         visit[p].at = "page" => (p \in markers' <=> p \in markers),
         visit[p].at = "consume" => request'[p] = request[p]
  PROVE  Ahead(p)' = Ahead(p)
  BY DEF Ahead

\* No other step sends it back.
LEMMA NobodyIsSentBack ==
  ASSUME IInv, SsoTypes, SsoTypes', [SsoNext]_ssoVars,
         NEW p \in Places, visit[p] # At("idle"), ~(LoggedOut /\ p = logout.origin)
  PROVE  Ahead(p)' <= Ahead(p)
<1>0. /\ TypeOK /\ visit \in [Places -> VisitState] /\ Places \subseteq Requests
      /\ Ahead(p) \in Nat /\ visit[p].at # "idle"
  <2>1. TypeOK /\ visit \in [Places -> VisitState] /\ Places \subseteq Requests
    BY PlacesAssumption DEF IInv, SsoTypes
  <2>2. visit[p].at # "idle"
    BY <2>1 DEF VisitState, At
  <2>3. QED
    BY <2>1, <2>2, AheadIs
<1>1. ASSUME Ahead(p)' = Ahead(p) PROVE Ahead(p)' <= Ahead(p)
  BY <1>0, <1>1
<1>2. ASSUME NEW q \in Places, NEW state \in VisitState, Moves(q, state), q # p
      PROVE  visit'[p] = visit[p]
  BY <1>0, <1>2, Moved
<1>3. ASSUME NEW q \in Places, Visit(q) \/ ClickLogin(q) \/ (\E t \in Tokens : Reopen(q, t))
      PROVE  Ahead(p)' = Ahead(p)
  <2>1. q # p /\ UNCHANGED <<markers, request>>
    BY <1>3 DEF Visit, ClickLogin, Reopen, vars
  <2>2. visit'[p] = visit[p]
    BY <1>2, <1>3, <2>1, VisitStates DEF Visit, ClickLogin, Reopen
  <2>3. QED
    BY <2>1, <2>2, AheadStays
<1>4. ASSUME NEW q \in Places, MarkerExpires(q) PROVE Ahead(p)' = Ahead(p)
  <2>1. q # p /\ UNCHANGED <<visit, request>> /\ markers' = markers \ {q}
    BY <1>4 DEF MarkerExpires, vars
  <2>2. QED
    BY <2>1, AheadStays
<1>5. ASSUME NEW q \in Places, Follow(q), q # p PROVE Ahead(p)' = Ahead(p)
  <2>1. visit'[p] = visit[p]
    <3>1. \/ visit' = visit
          \/ \E state \in VisitState : Moves(q, state)
      <4>1. ASSUME Serve(q) \/ Check(q) \/ Refuse(q) \/ TurnAway(q) \/ BuildFails(q)
                     \/ GoOnAnonymously(q) \/ Present(q) \/ Start(q)
            PROVE  \E state \in VisitState : Moves(q, state)
        BY <4>1, VisitStates
           DEF Serve, Check, Refuse, TurnAway, BuildFails, GoOnAnonymously, Present, Start
      <4>2. ASSUME Grant(q) \/ Authenticate(q)
            PROVE  \E state \in VisitState : Moves(q, state)
        <5>1. PICK b \in BOOLEAN : Moves(q, [at |-> "granted", stray |-> b])
          BY <4>2 DEF Grant, Authenticate, Tainted
        <5>2. QED
          BY <5>1, VisitStates
      <4>3. ASSUME Accept(q)
            PROVE  \E state \in VisitState : Moves(q, state)
        <5>1. PICK b \in BOOLEAN : Moves(q, [at |-> "start", stray |-> b])
          BY <4>3 DEF Accept, Tainted
        <5>2. QED
          BY <5>1, VisitStates
      <4>4. ASSUME NEW t \in Tokens, Answer(q, t)
            PROVE  \E state \in VisitState : Moves(q, state)
        BY <4>4, VisitStates DEF Answer
      <4>5. ASSUME Look(q)
            PROVE  visit' = visit \/ \E state \in VisitState : Moves(q, state)
        BY <4>5, VisitStates DEF Look
      <4>6. QED
        BY <1>5, <4>1, <4>2, <4>3, <4>4, <4>5 DEF Follow
    <3>2. QED
      BY <1>2, <1>5, <3>1
  <2>2. p \in markers' <=> p \in markers
    BY <1>5 DEF Follow, Serve, Check, Refuse, TurnAway, BuildFails, GoOnAnonymously, Present,
                Start, Grant, Authenticate, Accept, Answer, Look, Marked
  <2>3. request'[p] = request[p]
    BY <1>0, <1>5 DEF Follow, Serve, Check, Refuse, TurnAway, BuildFails, GoOnAnonymously,
                      Present, Start, Grant, Authenticate, Accept, Answer, Look, vars,
                      ConsumeBrokerToken, Begin, LookUpNonce, DeleteNonce, TypeOK,
                      BuildBrokerRedirect
  <2>4. QED
    BY <2>1, <2>2, <2>3, AheadStays
<1>6. ASSUME NEW q \in Places, Follow(q) PROVE Ahead(p)' <= Ahead(p)
  <2>1. CASE q = p
    <3>1. Ahead(p)' < Ahead(p)
      BY <1>6, <2>1, FollowNearer
    <3>2. Ahead(p)' \in Nat
      <4>1. visit'[p].at \in {"idle", "page", "ask", "login", "granted", "return", "consume",
                              "start"}
        BY DEF SsoTypes, VisitState
      <4>2. QED
        BY <4>1 DEF Ahead
    <3>3. QED
      BY <1>0, <3>1, <3>2
  <2>2. CASE q # p
    BY <1>1, <1>5, <1>6, <2>2
  <2>3. QED
    BY <2>1, <2>2
<1>7. ASSUME NEW x \in Sites, LogOut(x) \/ EndSession(x) \/ SessionLapses(x)
      PROVE  Ahead(p)' = Ahead(p)
  BY <1>7, AheadStays DEF LogOut, EndSession, SessionLapses, vars
<1>8. ASSUME LoggedOut PROVE Ahead(p)' = Ahead(p)
  <2>1. p # logout.origin /\ markers' = markers \ {logout.origin} /\ request' = request
        /\ visit'[p] = Outdated(visit[p])
    BY <1>8 DEF LoggedOut, vars
  <2>2. visit'[p].at = visit[p].at
    BY <1>0, <2>1 DEF Outdated, VisitState
  <2>3. QED
    BY <2>1, <2>2, AheadStays
<1>9. ASSUME Reassociate \/ SwitchMaintenance PROVE Ahead(p)' = Ahead(p)
  BY <1>9, AheadStays DEF Reassociate, SwitchMaintenance, vars
<1>10. ASSUME Elsewhere PROVE Ahead(p)' = Ahead(p)
  BY <1>0, <1>10, ElsewhereStays, AheadStays
<1>11. CASE UNCHANGED ssoVars
  BY <1>1, <1>11, AheadStays DEF ssoVars, ssoOnly, vars
<1> QED
  BY <1>1, <1>3, <1>4, <1>6, <1>7, <1>8, <1>9, <1>10, <1>11 DEF SsoNext

\* "redirect once ... so it cannot loop" (BrokerClientSilentLoginMiddleware): each redirect
\* brings a navigation nearer to its end, so that it takes eight steps at most, unless a
\* logout that was asked for at that place ends meanwhile and clears the marker.  That
\* sessions lapse, tokens are lost or used twice, subs are dissociated and maintenance is
\* switched on does not matter.  (With ConsumersReady this is what NavigationsEnd needs
\* besides fairness.)
THEOREM NoRedirectLoop == SsoSpec => RedirectsRunOut
<1>1. (IInv /\ SsoTypes) /\ (IInv /\ SsoTypes)' /\ [SsoNext]_ssoVars
        => [\A p \in Places :
              /\ Follow(p) => Ahead(p)' < Ahead(p)
              /\ visit[p] # At("idle") /\ ~(LoggedOut /\ p = logout.origin)
                   => Ahead(p)' <= Ahead(p)]_ssoVars
  BY FollowNearer, NobodyIsSentBack
<1>2. QED
  BY <1>1, SsoIInvAlways, PTL DEF SsoSpec, RedirectsRunOut

===============================================================================
