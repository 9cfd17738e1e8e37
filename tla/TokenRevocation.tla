----------------------------- MODULE TokenRevocation -----------------------------
(***************************************************************************)
(* The two ways in which a user's tokens are revoked, running beside the   *)
(* requests of TokenRefresh: universal logout (app_logout), started from a *)
(* browser or by another application through the API, and                  *)
(* GarbageCollectionMiddleware, which any user's request may trigger.      *)
(* Both read the associations, revoke the tokens they read at CILogon one  *)
(* call after another, and then delete the associations with a new query.  *)
(*                                                                         *)
(* The relay to the other applications changes nothing here; it only takes *)
(* time.                                                                   *)
(***************************************************************************)
EXTENDS TokenRefresh

VARIABLES
  logout,  \* app_logout: where it is, and what it has read
  gc,      \* GarbageCollectionMiddleware, likewise
  old      \* user agents whose association has passed the clear-out age

allVars == <<vars, logout, gc, old>>

Asleep == [pc |-> "idle"]

\* here: the session that logs out, and own: its token; todo: tokens still to
\* revoke; listed: sessions still to delete; half: one whose row is deleted and
\* whose entry is not; owed: those that were listed, without the ones that a
\* request may put back into the cache.
LogoutState ==
  {Asleep} \cup [pc : {"relay", "revoke", "end"}, here : SUBSET Sessions, own : TokenOrNone,
                 todo : SUBSET Tokens, listed : SUBSET Sessions, half : SUBSET Sessions,
                 owed : SUBSET Sessions]

GcState == {Asleep} \cup [pc : {"revoke"}, todo : SUBSET Tokens, agents : SUBSET Agents]

AllTypeOK ==
  /\ TypeOK
  /\ logout \in LogoutState
  /\ gc \in GcState
  /\ old \subseteq {a \in Agents : row[a] # NoToken}

AllInit == Init /\ logout = Asleep /\ gc = Asleep /\ old = {}

\* A logout or a collection may begin beside the requests in rs.
MayStart(rs) ==
  /\ logout = Asleep /\ gc = Asleep
  /\ env.serial => \A r \in Requests \ rs : ~Busy(r)

Alive == {s \in Sessions : store[s] # Absent}
Recorded(agents) == {row[a] : a \in agents} \ {NoToken}

\* CILogon revokes t, or the call fails and the failure is logged only.
Revoke(t) == (dead' = dead \cup {t}) \/ (env.flaky /\ UNCHANGED dead)

-------------------------------------------------------------------------------
(* app_logout.                                                             *)

LogOut(here, own) ==
  logout' = [pc |-> "relay", here |-> here, own |-> own, todo |-> {}, listed |-> {},
             half |-> {}, owed |-> {}]

\* Mutant of LogOutHere: the view is open to users who are not logged in.
LogOutAnyone(r) ==
  /\ MayStart({r})
  /\ At(r, "view")
  /\ LogOut({req[r].session}, req[r].token)
  /\ req' = [req EXCEPT ![r] = Idle]
  /\ UNCHANGED <<env, store, cached, row, lock, expired, dead, replaced, gc, old>>

\* The view of a request is /logout/; its session will be flushed, not saved.
LogOutHere(r) ==
  /\ MayStart({r})
  /\ At(r, "view")
  /\ req[r].token # Absent
  /\ LogOut({req[r].session}, req[r].token)
  /\ req' = [req EXCEPT ![r] = Idle]
  /\ UNCHANGED <<env, store, cached, row, lock, expired, dead, replaced, gc, old>>

\* LogoutView, for the user that an application names.
LogOutByApi ==
  /\ MayStart({})
  /\ LogOut({}, NoToken)
  /\ UNCHANGED <<vars, gc, old>>

\* The relay is over: the associations are read.
ListTokens ==
  /\ logout.pc = "relay"
  /\ Recorded(Agents) # {}
  /\ logout' = [logout EXCEPT
       !.pc = "revoke",
       !.todo = (Recorded(Agents) \cup {logout.own}) \ {NoToken}]
  /\ UNCHANGED <<vars, gc, old>>

\* Without any, not even the session's own token is revoked.
SkipRevocation ==
  /\ logout.pc = "relay"
  /\ Recorded(Agents) = {}
  /\ logout' = [logout EXCEPT !.pc = "end", !.listed = Alive, !.owed = Alive]
  /\ UNCHANGED <<vars, gc, old>>

RevokeListed(t) ==
  /\ logout.pc = "revoke"
  /\ t \in logout.todo
  /\ Revoke(t)
  /\ logout' = [logout EXCEPT !.todo = @ \ {t}]
  /\ UNCHANGED <<env, store, cached, row, lock, req, expired, replaced, gc, old>>

\* Mutant of DeleteAssociations: it does not wait for the revocations.
DeleteWithoutWaiting ==
  /\ logout.pc = "revoke"
  /\ row' = [a \in Agents |-> NoToken]
  /\ old' = {}
  /\ logout' = [logout EXCEPT !.pc = "end", !.todo = {}, !.listed = Alive, !.owed = Alive]
  /\ UNCHANGED <<env, store, cached, lock, req, expired, dead, replaced, gc>>

\* Mutant of DeleteAssociations: only sessions that carry a token are listed.
ListSessionsWithToken ==
  /\ logout.pc = "revoke"
  /\ logout.todo = {}
  /\ row' = [a \in Agents |-> NoToken]
  /\ old' = {}
  /\ logout' = [logout EXCEPT !.pc = "end", !.owed = Alive,
                              !.listed = {s \in Alive : store[s] \in Tokens}]
  /\ UNCHANGED <<env, store, cached, lock, req, expired, dead, replaced, gc>>

\* delete_associations queries again and deletes what there is now; then the
\* sessions of the user are listed, which are the rows of the database.
DeleteAssociations ==
  /\ logout.pc = "revoke"
  /\ logout.todo = {}
  /\ row' = [a \in Agents |-> NoToken]
  /\ old' = {}
  /\ logout' = [logout EXCEPT !.pc = "end", !.listed = Alive, !.owed = Alive]
  /\ UNCHANGED <<env, store, cached, lock, req, expired, dead, replaced, gc>>

\* One after another they are deleted: the row of a session first.
DeleteRow(s) ==
  /\ logout.pc = "end"
  /\ s \in logout.listed /\ logout.half = {}
  /\ store' = [store EXCEPT ![s] = Absent]
  /\ logout' = [logout EXCEPT !.listed = @ \ {s}, !.half = {s},
                              !.owed = IF Late(s) = {} THEN @ ELSE @ \ {s}]
  /\ UNCHANGED <<env, cached, row, lock, req, expired, dead, replaced, gc, old>>

\* And then its entry in the cache.
DeleteEntry(s) ==
  /\ logout.pc = "end"
  /\ s \in logout.half
  /\ cached' = [cached EXCEPT ![s] = Absent]
  /\ logout' = [logout EXCEPT !.half = {}]
  /\ UNCHANGED <<env, store, row, lock, req, expired, dead, replaced, gc, old>>

\* At last the session that logs out is flushed, like those that were listed.
FlushOwn ==
  /\ logout.pc = "end"
  /\ logout.listed = {} /\ logout.half = {} /\ logout.here # {}
  /\ logout' = [logout EXCEPT !.listed = logout.here, !.here = {}]
  /\ UNCHANGED <<vars, gc, old>>

FinishLogout ==
  /\ logout.pc = "end"
  /\ logout.listed = {} /\ logout.half = {} /\ logout.here = {}
  /\ logout' = Asleep
  /\ UNCHANGED <<vars, gc, old>>

-------------------------------------------------------------------------------
(* GarbageCollectionMiddleware.                                            *)

\* garner_associations: by creation date, which an update does not change.
Garner ==
  /\ MayStart({})
  /\ old # {}
  /\ gc' = [pc |-> "revoke", todo |-> Recorded(old), agents |-> old]
  /\ UNCHANGED <<vars, logout, old>>

RevokeOld(t) ==
  /\ gc.pc = "revoke"
  /\ t \in gc.todo
  /\ Revoke(t)
  /\ gc' = [gc EXCEPT !.todo = @ \ {t}]
  /\ UNCHANGED <<env, store, cached, row, lock, req, expired, replaced, logout, old>>

\* delete_associations, with the query of garner_associations.
DeleteOld ==
  /\ gc.pc = "revoke"
  /\ gc.todo = {}
  /\ row' = [a \in Agents |-> IF a \in gc.agents \cap old THEN NoToken ELSE row[a]]
  /\ old' = old \ gc.agents
  /\ gc' = Asleep
  /\ UNCHANGED <<env, store, cached, lock, req, expired, dead, replaced, logout>>

\* CILOGON_TOKEN_CLEAROUT_DAYS pass; a collection does not take that long.
Age(a) ==
  /\ gc = Asleep
  /\ row[a] # NoToken
  /\ old' = old \cup {a}
  /\ UNCHANGED <<vars, logout, gc>>

-------------------------------------------------------------------------------

\* Tokens that a logout or a collection has read.
InHand ==
  (IF logout = Asleep THEN {} ELSE {logout.own} \cup logout.todo)
    \cup (IF gc = Asleep THEN {} ELSE gc.todo)

\* The session keys that a logout has read.
KeysInHand ==
  IF logout = Asleep THEN {} ELSE logout.here \cup logout.listed \cup logout.half \cup logout.owed

\* The requests of TokenRefresh go on; tokens and keys in hand are not issued again.
Serve ==
  /\ env.serial => logout = Asleep /\ gc = Asleep
  /\ Next
  /\ InHand \cap (Known' \ Known) = {}
  /\ \A s \in KeysInHand, t \in Tokens : ~Login(s, t)
  /\ UNCHANGED <<logout, gc, old>>

LogoutNext ==
  \/ \E r \in Requests : LogOutHere(r)
  \/ \E s \in Sessions : DeleteRow(s) \/ DeleteEntry(s)
  \/ LogOutByApi \/ ListTokens \/ SkipRevocation
  \/ DeleteAssociations \/ FlushOwn \/ FinishLogout
  \/ \E t \in Tokens : RevokeListed(t)

GcNext ==
  \/ Garner \/ DeleteOld
  \/ \E t \in Tokens : RevokeOld(t)
  \/ \E a \in Agents : Age(a)

AllNext == Serve \/ LogoutNext \/ GcNext

AllSpec == AllInit /\ [][AllNext]_allVars

-------------------------------------------------------------------------------
(* Properties.                                                             *)

\* "Clears user sessions": when logout returns, every session that had a row when the rows
\* were listed has ended, in the database and in the cache, although requests went on saving
\* their copies.  Only a request that was between the row and the entry of a session when the
\* row was deleted can have put the entry back.
LogoutEndsSessions ==
  [][FinishLogout =>
       \A s \in logout.owed : store[s] = Absent /\ cached[s] = Absent]_allVars

\* "delete these token associations that have now been revoked": the only
\* record of a token is never deleted while CILogon still honours the token, if
\* CILogon answers and no request is served meanwhile.
OnlyRevokedAreForgotten ==
  [][env.serial /\ ~env.flaky => \A a \in Agents :
       row[a] \in Tokens /\ row'[a] = NoToken => row[a] \in dead]_allVars

===============================================================================
