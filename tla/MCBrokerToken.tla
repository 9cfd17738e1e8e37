----------------------------- MODULE MCBrokerToken -----------------------------
(* Instances of BrokerToken for TLC.                                       *)
EXTENDS BrokerToken
===============================================================================
