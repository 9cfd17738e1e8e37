------------------------------ MODULE BrokerToken ------------------------------
(***************************************************************************)
(* The identity broker's one-time tokens.  The hub builds an encrypted     *)
(* token, which carries its own expiry, and stores the token's nonce in    *)
(* the shared cache (oauth.build_broker_redirect).  Two kinds of request   *)
(* use a token up: a satellite host consumes it                            *)
(* (broker_client.consume_broker_token), and a third-party application has *)
(* its nonce verified by the hub (verify_broker_nonce, synchronous or      *)
(* asynchronous).  Both look the nonce up and then delete it, in two calls *)
(* to the cache between which other requests run.                          *)
(*                                                                         *)
(* A token and its nonce are one value here: the encryption that binds     *)
(* them is not modelled.  Time is abstracted to the set of tokens whose    *)
(* "exp" has passed; the cache's own timeout is DropNonce, which may come  *)
(* earlier (eviction) or later.                                            *)
(***************************************************************************)
EXTENDS Naturals

CONSTANTS
  Tokens,    \* the tokens that may be built
  Requests   \* concurrent requests: threads of the web workers

VARIABLES
  minted,    \* tokens built so far
  expired,   \* tokens whose "exp" has passed
  nonces,    \* tokens whose nonce is in the cache
  request,   \* what each request is doing, and for which token
  accepted,  \* history: how often each token was accepted
  spent,     \* history: tokens whose nonce some request has deleted
  contested  \* history: tokens for which two requests ran at the same time

vars == <<minted, expired, nonces, request, accepted, spent, contested>>

Idle == [pc |-> "idle"]

\* late: the request began after the token had been spent.
RequestState ==
  {Idle} \cup [pc : {"lookup", "delete"}, token : Tokens, late : BOOLEAN]

TypeOK ==
  /\ minted \subseteq Tokens
  /\ expired \subseteq minted
  /\ nonces \subseteq minted \ spent
  /\ request \in [Requests -> RequestState]
  /\ accepted \in [Tokens -> Nat]
  /\ spent \subseteq minted
  /\ contested \subseteq minted

Init ==
  /\ minted = {}
  /\ expired = {}
  /\ nonces = {}
  /\ request = [r \in Requests |-> Idle]
  /\ accepted = [t \in Tokens |-> 0]
  /\ spent = {}
  /\ contested = {}

-------------------------------------------------------------------------------

\* Mutant of BuildBrokerRedirect: a nonce may be drawn again.
BuildWithUsedNonce(t) ==
  /\ minted' = minted \cup {t}
  /\ nonces' = nonces \cup {t}
  /\ UNCHANGED <<expired, request, accepted, spent, contested>>

\* build_broker_redirect: a nonce never drawn before is stored before the
\* redirect that carries the token is returned.
BuildBrokerRedirect(t) ==
  /\ t \notin minted
  /\ minted' = minted \cup {t}
  /\ nonces' = nonces \cup {t}
  /\ UNCHANGED <<expired, request, accepted, spent, contested>>

Uses(q, t) == request[q].pc # "idle" /\ request[q].token = t

Begin(r, t) ==
  /\ request[r].pc = "idle"
  /\ t \in minted
  /\ request' = [request EXCEPT
                   ![r] = [pc |-> "lookup", token |-> t, late |-> t \in spent]]
  /\ contested' = contested \cup {u \in {t} : \E q \in Requests : Uses(q, u)}
  /\ UNCHANGED <<minted, expired, nonces, accepted, spent>>

\* consume_broker_token up to the cache: the payload's exp has not passed.
ConsumeBrokerToken(r, t) == t \notin expired /\ Begin(r, t)

\* verify_broker_nonce up to the cache: it is given the nonce only.
VerifyBrokerNonce(r, t) == Begin(r, t)

\* Mutant of LookUpNonce: a nonce that the cache no longer has is let through.
LookUpNothing(r) ==
  /\ request[r].pc = "lookup"
  /\ request' = [request EXCEPT ![r].pc = "delete"]
  /\ UNCHANGED <<minted, expired, nonces, accepted, spent, contested>>

\* cache.get; a missing nonce refuses the request.
LookUpNonce(r) ==
  /\ request[r].pc = "lookup"
  /\ request' = [request EXCEPT
                   ![r] = IF request[r].token \in nonces
                          THEN [@ EXCEPT !.pc = "delete"] ELSE Idle]
  /\ UNCHANGED <<minted, expired, nonces, accepted, spent, contested>>

\* Mutant of DeleteNonce: the nonce stays in the cache.
KeepNonce(r) ==
  /\ request[r].pc = "delete"
  /\ accepted' = [accepted EXCEPT ![request[r].token] = @ + 1]
  /\ spent' = spent \cup {request[r].token}
  /\ request' = [request EXCEPT ![r] = Idle]
  /\ UNCHANGED <<minted, expired, nonces, contested>>

\* cache.delete, whose result is not looked at: the token is accepted.
DeleteNonce(r) ==
  /\ request[r].pc = "delete"
  /\ nonces' = nonces \ {request[r].token}
  /\ accepted' = [accepted EXCEPT ![request[r].token] = @ + 1]
  /\ spent' = spent \cup {request[r].token}
  /\ request' = [request EXCEPT ![r] = Idle]
  /\ UNCHANGED <<minted, expired, contested>>

-------------------------------------------------------------------------------

\* The cache drops a nonce: its timeout passed, or it was evicted early.
DropNonce(t) ==
  /\ nonces' = nonces \ {t}
  /\ UNCHANGED <<minted, expired, request, accepted, spent, contested>>

\* The clock passes a token's exp.
Expire(t) ==
  /\ t \in minted
  /\ expired' = expired \cup {t}
  /\ UNCHANGED <<minted, nonces, request, accepted, spent, contested>>

Next ==
  \/ \E t \in Tokens : BuildBrokerRedirect(t) \/ DropNonce(t) \/ Expire(t)
  \/ \E r \in Requests, t \in Tokens :
       ConsumeBrokerToken(r, t) \/ VerifyBrokerNonce(r, t)
  \/ \E r \in Requests : LookUpNonce(r) \/ DeleteNonce(r)

Spec == Init /\ [][Next]_vars

-------------------------------------------------------------------------------
(* Properties.                                                             *)

\* "One-time use": a token is accepted at most once, whoever presents it and
\* however often.
AcceptedAtMostOnce == \A t \in Tokens : accepted[t] <= 1

\* The same of a token for which two requests never ran at the same time.
UncontestedIsAcceptedOnce == \A t \in Tokens \ contested : accepted[t] <= 1

\* A request that begins after a token was spent is never accepted: presenting
\* the same token again later always fails, at the satellite and at the hub.
Surviving(r) == request[r].pc = "delete"

ReplayIsRefused == \A r \in Requests : Surviving(r) => ~request[r].late

\* The abstract token: valid while its nonce is in the cache or a request
\* that has found it has yet to delete it, used once it was accepted.
InUse(t) ==
  t \in nonces \/ \E r \in Requests : Surviving(r) /\ request[r].token = t

Status(t) ==
  IF t \notin minted THEN "unissued"
  ELSE IF t \in contested THEN "contested"
  ELSE IF accepted[t] > 0 THEN "used"
  ELSE IF InUse(t) THEN "valid"
  ELSE "lapsed"

Promise == INSTANCE OneTimeToken WITH status <- [t \in Tokens |-> Status(t)]

\* The token as its users see it: issued once, accepted at most once, and
\* worthless for ever once it was accepted or has lapsed, unless two requests
\* present it at the same time.
ImplementsOneTimeToken == Promise!Spec

===============================================================================
