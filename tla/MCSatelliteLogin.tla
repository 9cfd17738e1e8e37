---------------------------- MODULE MCSatelliteLogin ----------------------------
(* Instances of SatelliteLogin for TLC.                                    *)
EXTENDS SatelliteLogin, TLC

CONSTANTS b1, s1, s2, app

BrowsersMC == {b1}
SatellitesMC == {s1, s2}
RequestsMC == (BrowsersMC \X SatellitesMC) \cup {app}

\* One satellite with logouts, tokens lost and the sub dissociated; two with
\* logouts, sessions that end and addresses opened again; one with maintenance
\* and with tokens lost, opened again and used twice; two with tokens used twice.
Mixed ==
  {[used |-> {<<b1, s1>>}, happens |-> {"logout", "reassociate", "lose"}],
   [used |-> BrowsersMC \X SatellitesMC, happens |-> {"logout", "lapse", "reopen"}],
   [used |-> {<<b1, s1>>},
    happens |-> {"reassociate", "maintain", "lose", "reopen", "second"}],
   [used |-> BrowsersMC \X SatellitesMC, happens |-> {"second"}]}
===============================================================================
