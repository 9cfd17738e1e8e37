--------------------------- MODULE ProtectionLease ---------------------------
(***************************************************************************)
(* What the website monitor promises about the load balancer rule, with no *)
(* mention of processes, AWS calls or stored state: protection is engaged, *)
(* stays engaged for at least ActivationDuration, and is then released.    *)
(***************************************************************************)
EXTENDS Naturals

CONSTANT ActivationDuration

VARIABLES
  engaged,  \* is the protection in force?
  age       \* time since engaged last changed, capped at ActivationDuration

leaseVars == <<engaged, age>>

Init == engaged = FALSE /\ age = ActivationDuration

Engage == ~engaged /\ engaged' = TRUE /\ age' = 0

TimePasses == age < ActivationDuration /\ age' = age + 1 /\ UNCHANGED engaged

Release == engaged /\ age = ActivationDuration /\ engaged' = FALSE /\ age' = 0

Next == Engage \/ TimePasses \/ Release

Spec == Init /\ [][Next]_leaseVars
==============================================================================
