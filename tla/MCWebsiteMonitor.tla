-------------------------- MODULE MCWebsiteMonitor --------------------------
(* Model values and bounds for checking WebsiteMonitor with TLC.           *)
EXTENDS WebsiteMonitor

CONSTANTS
  m1, m2,           \* two processes
  GetOnly, GetPost  \* two values of the condition

\* A kill anywhere but between modify-rule and the write to S3, while elbv2 is
\* flaky; a rolling deployment while everything is flaky; a single process that
\* is not killed, likewise, and without a bucket; a kill anywhere.
Mixed ==
  {[running |-> {m1}, bucket |-> TRUE, s3Faults |-> FALSE, elbFaults |-> TRUE,
    killPoints |-> Labels \ {"save"}],
   [running |-> {m1, m2}, bucket |-> TRUE, s3Faults |-> TRUE, elbFaults |-> TRUE,
    killPoints |-> {}],
   [running |-> {m1}, bucket |-> TRUE, s3Faults |-> TRUE, elbFaults |-> TRUE,
    killPoints |-> {}],
   [running |-> {m1}, bucket |-> FALSE, s3Faults |-> FALSE, elbFaults |-> TRUE,
    killPoints |-> {}],
   [running |-> {m1}, bucket |-> TRUE, s3Faults |-> TRUE, elbFaults |-> FALSE,
    killPoints |-> Labels]}

Deadly ==
  {[running |-> {m1}, bucket |-> TRUE, s3Faults |-> FALSE, elbFaults |-> FALSE,
    killPoints |-> Labels]}
=============================================================================
