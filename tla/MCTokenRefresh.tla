----------------------------- MODULE MCTokenRefresh -----------------------------
(* Instances of TokenRefresh for TLC.                                      *)
EXTENDS TokenRefresh, TLC

CONSTANTS a1, s1, s2

OneAgent == [s \in Sessions |-> a1]

Quiet ==
  [rotates |-> TRUE, flaky |-> FALSE, slow |-> FALSE, kills |-> FALSE, breaks |-> FALSE,
   evicts |-> FALSE, serial |-> FALSE, browsers |-> {s1}]

\* One browser and requests that overlap: a cache that loses sessions; a lock that expires
\* under its holder, and failing views.  Two browsers and one
\* request at a time: an unreliable CILogon; kills, which leave the lock behind, and failing
\* views.
Mixed ==
  {[Quiet EXCEPT !.evicts = TRUE],
   [Quiet EXCEPT !.slow = TRUE, !.breaks = TRUE],
   [Quiet EXCEPT !.serial = TRUE, !.browsers = {s1, s2}, !.flaky = TRUE],
   [Quiet EXCEPT !.serial = TRUE, !.browsers = {s1, s2}, !.kills = TRUE, !.breaks = TRUE]}

Peaceful == {[Quiet EXCEPT !.rotates = FALSE]}

===============================================================================
