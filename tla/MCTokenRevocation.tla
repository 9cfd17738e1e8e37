---------------------------- MODULE MCTokenRevocation ----------------------------
(* Instances of TokenRevocation for TLC.                                   *)
EXTENDS TokenRevocation, TLC

CONSTANTS a1, s1, s2

OneAgent == [s \in Sessions |-> a1]

Quiet ==
  [rotates |-> TRUE, flaky |-> FALSE, slow |-> FALSE, kills |-> FALSE, breaks |-> FALSE,
   evicts |-> FALSE, serial |-> FALSE, browsers |-> {s1}]

\* One browser: requests beside logouts and collections, with an unreliable CILogon, or with
\* kills and a cache that loses sessions.  Two browsers: one thing at a time and a CILogon
\* that answers.
Mixed ==
  {[Quiet EXCEPT !.flaky = TRUE],
   [Quiet EXCEPT !.kills = TRUE, !.evicts = TRUE],
   [Quiet EXCEPT !.serial = TRUE, !.browsers = {s1, s2}]}

===============================================================================
