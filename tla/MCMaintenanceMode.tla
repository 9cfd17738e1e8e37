--------------------------- MODULE MCMaintenanceMode ---------------------------
(* Instances of MaintenanceMode for TLC.                                    *)
EXTENDS MaintenanceMode

\* Nothing fails; the cache is lost now and then; everything goes wrong,
\* with one visit at a time.
Mixed ==
  {[forgets |-> FALSE, outages |-> FALSE, aborts |-> FALSE, alone |-> FALSE],
   [forgets |-> TRUE, outages |-> FALSE, aborts |-> FALSE, alone |-> FALSE],
   [forgets |-> TRUE, outages |-> TRUE, aborts |-> TRUE, alone |-> TRUE]}

Calm == {[forgets |-> FALSE, outages |-> FALSE, aborts |-> FALSE, alone |-> FALSE]}
================================================================================
