------------------------------ MODULE MCAccounts ------------------------------
(* Two usernames, addresses and subs, two links for an association and one *)
(* for an address, two requests at a time.                                 *)
EXTENDS Accounts, TLC

CONSTANTS u1, u2, e1, e2

Nobody == [u \in Usernames |-> None]
Somebody == (u1 :> e1) @@ Nobody
Both == (u1 :> e1) @@ (u2 :> e2)

Calm ==
  [serial |-> TRUE, kills |-> FALSE, outages |-> FALSE, removals |-> FALSE, edits |-> FALSE,
   known |-> Emails, imported |-> Nobody]

Overlapping == [Calm EXCEPT !.serial = FALSE, !.known = {}]

MCEnvironments ==
  {[Calm EXCEPT !.removals = TRUE],
   [Calm EXCEPT !.removals = TRUE, !.outages = TRUE, !.imported = Somebody],
   [Calm EXCEPT !.kills = TRUE],
   [Calm EXCEPT !.edits = TRUE],
   Overlapping,
   [Overlapping EXCEPT !.removals = TRUE, !.imported = Somebody],
   [Overlapping EXCEPT !.edits = TRUE, !.imported = Both]}
===============================================================================
