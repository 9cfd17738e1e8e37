---------------------------- MODULE WebsiteMonitor ----------------------------
(***************************************************************************)
(* cron/monitor_website.py: a process polls the website and, after         *)
(* SiteDownThreshold consecutive failures, removes the http-request-method *)
(* condition from an AWS load balancer rule.  It must put the condition    *)
(* back ActivationDuration later, also when it was restarted in between,   *)
(* for which it keeps a record of the activation in S3.                    *)
(*                                                                         *)
(* Every AWS call is a step of its own, because the process can be killed  *)
(* between two calls and because a rolling deployment runs the old and the *)
(* new process side by side.  Time is kept as ages that count up to the    *)
(* largest duration the code compares them with.                           *)
(***************************************************************************)
EXTENDS Naturals

CONSTANTS
  Monitors,            \* the process instances that may run
  Methods,             \* values of the http-request-method condition
  ConfiguredMethods,   \* the value the operators configured
  DefaultMethods,      \* the fallback ["GET", "POST"]
  NoRestriction,       \* the condition is absent / no methods are remembered
  NoRecord,            \* there is no object in the bucket
  ActivationDuration,  \* ACTIVATION_DURATION
  GracePeriodDuration, \* GRACE_PERIOD_DURATION
  SiteDownThreshold,   \* SITE_DOWN_THRESHOLD
  Environments         \* the surroundings in which the processes may run

ASSUME TimingAssumption ==
  /\ ActivationDuration \in Nat \ {0}
  /\ GracePeriodDuration \in 0..ActivationDuration
  /\ SiteDownThreshold \in Nat \ {0}

ASSUME MethodsAssumption ==
  /\ {ConfiguredMethods, DefaultMethods} \subseteq Methods
  /\ NoRestriction \notin Methods

\* rule_arn says whether the record is about LISTENER_RULE_ARN or another rule.
Ages == 0..ActivationDuration
Records == [rule_arn : {"this", "other"}, age : Ages, methods : Methods]

ASSUME NoRecordAssumption == NoRecord \notin Records

\* The next thing a process does; one label per external call.
Labels == {"stopped", "load", "loop", "capture", "inspect", "remove", "save",
           "reinspect", "restore", "forget"}

\* running: the processes that run, several during a rolling deployment; bucket:
\* is MONITOR_S3_BUCKET set; s3Faults, elbFaults: may calls to S3, to elbv2
\* fail; killPoints: the steps before which a process may be killed.
ASSUME EnvironmentAssumption ==
  Environments \subseteq
    [running : SUBSET Monitors, bucket : BOOLEAN, s3Faults : BOOLEAN,
     elbFaults : BOOLEAN, killPoints : SUBSET Labels]

VARIABLES
  env,      \* the surroundings, which do not change
  mon,      \* each process: its program counter and its MonitorState
  rule,     \* the listener rule's http-request-method condition
  ruleAge,  \* history: time since the condition was last removed or restored
  s3,       \* the activation record in the bucket
  elbUp,    \* do elbv2 calls succeed now?
  s3Up      \* do S3 calls succeed now?

vars == <<env, mon, rule, ruleAge, s3, elbUp, s3Up>>

Phases == {"monitoring", "activated", "grace_period"}

MonitorState ==
  [pc : Labels,
   phase : Phases,
   consecutive_failures : 0..SiteDownThreshold,
   since : Ages,   \* age of activated_at, or of grace_period_start
   original_http_methods : Methods \cup {NoRestriction}]

Blank(label) ==
  [pc |-> label, phase |-> "monitoring", consecutive_failures |-> 0,
   since |-> 0, original_http_methods |-> NoRestriction]

OwnRecord == s3 # NoRecord /\ s3.rule_arn = "this"

TypeOK ==
  /\ env \in Environments
  /\ mon \in [Monitors -> MonitorState]
  /\ rule \in Methods \cup {NoRestriction}
  /\ ruleAge \in Ages
  /\ s3 \in Records \cup {NoRecord}
  /\ elbUp \in BOOLEAN
  /\ s3Up \in BOOLEAN

\* The bucket may hold the record of a rule that was replaced since.
Init ==
  /\ env \in Environments
  /\ mon = [m \in Monitors |-> Blank("stopped")]
  /\ rule = ConfiguredMethods
  /\ ruleAge = ActivationDuration
  /\ s3 \in {NoRecord,
             [rule_arn |-> "other", age |-> 0, methods |-> DefaultMethods]}
  /\ elbUp = TRUE
  /\ s3Up = TRUE

Update(m, s) == mon' = [mon EXCEPT ![m] = s]

GoTo(m, label) == Update(m, [mon[m] EXCEPT !.pc = label])

-------------------------------------------------------------------------------
(* Start-up: monitor_loop calls initialize_state_from_s3.                  *)

Start(m) ==
  /\ m \in env.running
  /\ mon[m].pc = "stopped"
  /\ Update(m, Blank("load"))
  /\ UNCHANGED <<env, rule, ruleAge, s3, elbUp, s3Up>>

\* Mutant of NothingLoaded: an expired record is taken for no record.
NothingLoadedIfExpired ==
  ~env.bucket \/ ~s3Up \/ (OwnRecord => s3.age = ActivationDuration)

\* A failed download is indistinguishable from a missing object.
NothingLoaded == ~env.bucket \/ ~s3Up \/ ~OwnRecord

InitializeWithoutRecord(m) ==
  /\ mon[m].pc = "load"
  /\ NothingLoaded
  /\ GoTo(m, "loop")
  /\ UNCHANGED <<env, rule, ruleAge, s3, elbUp, s3Up>>

InitializeFromRecord(m) ==
  /\ mon[m].pc = "load"
  /\ ~NothingLoaded
  /\ Update(m, IF s3.age = ActivationDuration
               THEN [mon[m] EXCEPT !.pc = "reinspect",
                                   !.original_http_methods = s3.methods]
               ELSE [mon[m] EXCEPT !.pc = "loop",
                                   !.phase = "activated",
                                   !.since = s3.age,
                                   !.original_http_methods = s3.methods])
  /\ UNCHANGED <<env, rule, ruleAge, s3, elbUp, s3Up>>

-------------------------------------------------------------------------------
(* One iteration of monitor_loop, by phase.                                *)

SiteUp(m) ==
  /\ mon[m].pc = "loop"
  /\ mon[m].phase = "monitoring"
  /\ Update(m, [mon[m] EXCEPT !.consecutive_failures = 0])
  /\ UNCHANGED <<env, rule, ruleAge, s3, elbUp, s3Up>>

\* The counter is only compared with the threshold, so it stops there.
SiteDown(m) ==
  LET threshold == mon[m].consecutive_failures + 1 >= SiteDownThreshold IN
  /\ mon[m].pc = "loop"
  /\ mon[m].phase = "monitoring"
  /\ Update(m,
       [mon[m] EXCEPT
          !.consecutive_failures = IF threshold THEN SiteDownThreshold ELSE @ + 1,
          !.pc = IF threshold THEN "capture" ELSE "loop"])
  /\ UNCHANGED <<env, rule, ruleAge, s3, elbUp, s3Up>>

\* Mutant of CheckActivationTimeout: the timeout fires one tick early.
CheckActivationTimeoutEarly(m) ==
  /\ mon[m].pc = "loop"
  /\ mon[m].phase = "activated"
  /\ mon[m].since + 1 >= ActivationDuration
  /\ GoTo(m, "reinspect")
  /\ UNCHANGED <<env, rule, ruleAge, s3, elbUp, s3Up>>

CheckActivationTimeout(m) ==
  /\ mon[m].pc = "loop"
  /\ mon[m].phase = "activated"
  /\ mon[m].since = ActivationDuration
  /\ GoTo(m, "reinspect")
  /\ UNCHANGED <<env, rule, ruleAge, s3, elbUp, s3Up>>

CheckGracePeriod(m) ==
  /\ mon[m].pc = "loop"
  /\ mon[m].phase = "grace_period"
  /\ mon[m].since >= GracePeriodDuration
  /\ Update(m, Blank("loop"))
  /\ UNCHANGED <<env, rule, ruleAge, s3, elbUp, s3Up>>

-------------------------------------------------------------------------------
(* handle_site_down past the threshold.                                    *)

\* Mutant of CaptureMethods: the configured methods are not looked up.
CaptureDefaultMethods(m) ==
  /\ mon[m].pc = "capture"
  /\ Update(m, [mon[m] EXCEPT !.pc = "inspect",
                              !.original_http_methods = DefaultMethods])
  /\ UNCHANGED <<env, rule, ruleAge, s3, elbUp, s3Up>>

\* Mutant of CaptureMethods: without the default for an answer that did not come.
CaptureWithoutDefault(m) ==
  /\ mon[m].pc = "capture"
  /\ Update(m, [mon[m] EXCEPT !.pc = "inspect",
                              !.original_http_methods =
                                IF elbUp THEN rule ELSE NoRestriction])
  /\ UNCHANGED <<env, rule, ruleAge, s3, elbUp, s3Up>>

\* First describe-rules: remember the methods, or the default if unavailable.
CaptureMethods(m) ==
  /\ mon[m].pc = "capture"
  /\ Update(m, [mon[m] EXCEPT
                  !.pc = "inspect",
                  !.original_http_methods =
                    IF elbUp /\ rule # NoRestriction THEN rule
                    ELSE DefaultMethods])
  /\ UNCHANGED <<env, rule, ruleAge, s3, elbUp, s3Up>>

\* A failed removal drops the local original_methods and leaves the phase.
GiveUpRemoval(m) ==
  Update(m, [mon[m] EXCEPT !.pc = "loop",
                           !.original_http_methods = NoRestriction])

\* Second describe-rules, inside remove_http_method_restriction.
InspectBeforeRemoval(m) ==
  /\ mon[m].pc = "inspect"
  /\ IF elbUp /\ rule # NoRestriction
     THEN GoTo(m, "remove")
     ELSE GiveUpRemoval(m)
  /\ UNCHANGED <<env, rule, ruleAge, s3, elbUp, s3Up>>

\* modify-rule replaces the whole condition list by one without the methods.
RemoveRestriction(m) ==
  /\ mon[m].pc = "remove"
  /\ IF elbUp
     THEN /\ rule' = NoRestriction
          /\ ruleAge' = IF rule = NoRestriction THEN ruleAge ELSE 0
          /\ Update(m, [mon[m] EXCEPT !.pc = "save",
                                      !.phase = "activated",
                                      !.since = 0])
     ELSE /\ GiveUpRemoval(m)
          /\ UNCHANGED <<env, rule, ruleAge>>
  /\ UNCHANGED <<env, s3, elbUp, s3Up>>

\* Mutant of SaveState: the record does not name the rule it is about.
SaveStateOfOtherRule(m) ==
  /\ mon[m].pc = "save"
  /\ s3' = IF env.bucket /\ s3Up
           THEN [rule_arn |-> "other", age |-> mon[m].since,
                 methods |-> mon[m].original_http_methods]
           ELSE s3
  /\ GoTo(m, "loop")
  /\ UNCHANGED <<env, rule, ruleAge, elbUp, s3Up>>

\* The result of save_state_to_s3 is ignored.
SaveState(m) ==
  /\ mon[m].pc = "save"
  /\ s3' = IF env.bucket /\ s3Up
           THEN [rule_arn |-> "this", age |-> mon[m].since,
                 methods |-> mon[m].original_http_methods]
           ELSE s3
  /\ GoTo(m, "loop")
  /\ UNCHANGED <<env, rule, ruleAge, elbUp, s3Up>>

-------------------------------------------------------------------------------
(* restore_http_method_restriction and what follows it, reached from       *)
(* check_activation_timeout (phase activated) and from                     *)
(* initialize_state_from_s3 with an expired record (phase monitoring).     *)

\* Mutant of RestoreFailed: a failed restoration is not retried.
RestoreAbandoned(m) == Update(m, Blank("loop"))

\* Both callers end up ACTIVATED with an expired activated_at and retry.
RestoreFailed(m) ==
  Update(m, [mon[m] EXCEPT !.pc = "loop",
                           !.phase = "activated",
                           !.since = ActivationDuration])

\* Mutant of InspectBeforeRestore: an unavailable rule counts as restored.
InspectBeforeRestoreLax(m) ==
  /\ mon[m].pc = "reinspect"
  /\ GoTo(m, IF elbUp /\ rule = NoRestriction THEN "restore" ELSE "forget")
  /\ UNCHANGED <<env, rule, ruleAge, s3, elbUp, s3Up>>

InspectBeforeRestore(m) ==
  /\ mon[m].pc = "reinspect"
  /\ IF ~elbUp THEN RestoreFailed(m)
     ELSE GoTo(m, IF rule = NoRestriction THEN "restore" ELSE "forget")
  /\ UNCHANGED <<env, rule, ruleAge, s3, elbUp, s3Up>>

RestoreRestriction(m) ==
  /\ mon[m].pc = "restore"
  /\ IF elbUp
     THEN /\ rule' = mon[m].original_http_methods
          /\ ruleAge' = IF rule = NoRestriction THEN 0 ELSE ruleAge
          /\ GoTo(m, "forget")
     ELSE /\ RestoreFailed(m)
          /\ UNCHANGED <<env, rule, ruleAge>>
  /\ UNCHANGED <<env, s3, elbUp, s3Up>>

\* The result of delete_state_from_s3 is ignored too.
ForgetAndRest(m) ==
  /\ mon[m].pc = "forget"
  /\ s3' = IF env.bucket /\ s3Up THEN NoRecord ELSE s3
  /\ Update(m, [Blank("loop") EXCEPT !.phase = "grace_period"])
  /\ UNCHANGED <<env, rule, ruleAge, elbUp, s3Up>>

-------------------------------------------------------------------------------
(* The environment.                                                        *)

\* The container stops at any point allowed by killPoints; memory is lost.
Kill(m) ==
  /\ mon[m].pc \in env.killPoints \ {"stopped"}
  /\ Update(m, Blank("stopped"))
  /\ UNCHANGED <<env, rule, ruleAge, s3, elbUp, s3Up>>

Older(a) == IF a < ActivationDuration THEN a + 1 ELSE a

Tick ==
  /\ ruleAge' = Older(ruleAge)
  /\ mon' = [m \in Monitors |->
               IF mon[m].phase = "monitoring" THEN mon[m]
               ELSE [mon[m] EXCEPT !.since = Older(@)]]
  /\ s3' = IF s3 = NoRecord THEN s3 ELSE [s3 EXCEPT !.age = Older(@)]
  /\ UNCHANGED <<env, rule, elbUp, s3Up>>

ElbChanges ==
  /\ env.elbFaults
  /\ elbUp' = ~elbUp
  /\ UNCHANGED <<env, mon, rule, ruleAge, s3, s3Up>>

S3Changes ==
  /\ env.s3Faults
  /\ s3Up' = ~s3Up
  /\ UNCHANGED <<env, mon, rule, ruleAge, s3, elbUp>>

-------------------------------------------------------------------------------

\* The website answers, or does not.
CheckWebsite(m) == SiteUp(m) \/ SiteDown(m)

\* Everything else a running process does by itself.
Progress(m) ==
  \/ InitializeWithoutRecord(m)
  \/ InitializeFromRecord(m)
  \/ CheckActivationTimeout(m)
  \/ CheckGracePeriod(m)
  \/ CaptureMethods(m)
  \/ InspectBeforeRemoval(m)
  \/ RemoveRestriction(m)
  \/ SaveState(m)
  \/ InspectBeforeRestore(m)
  \/ RestoreRestriction(m)
  \/ ForgetAndRest(m)

Next ==
  \/ \E m \in Monitors : Start(m) \/ CheckWebsite(m) \/ Progress(m) \/ Kill(m)
  \/ Tick
  \/ ElbChanges
  \/ S3Changes

Spec == Init /\ [][Next]_vars

\* The scheduler restarts a stopped container, the loop keeps running and
\* time passes; nothing is assumed of AWS or of the website.
Fairness ==
  /\ WF_vars(Tick)
  /\ \A m \in Monitors : WF_vars(Start(m)) /\ WF_vars(Progress(m))

FairSpec == Spec /\ Fairness

-------------------------------------------------------------------------------
(* Properties.                                                             *)

\* A deployment without overlap.
Alone == \A m, n \in env.running : m = n

\* A bucket that works, and no kill between modify-rule and the write of the
\* record.
Durable == env.bucket /\ ~env.s3Faults /\ "save" \notin env.killPoints

\* A single process on a durable bucket has its removal of the restriction on
\* record in S3, or is just about to write that record: a restart always finds
\* it (handle_site_down, initialize_state_from_s3).
RemovalIsRecorded ==
  Alone /\ Durable /\ rule = NoRestriction =>
    OwnRecord \/ \E m \in Monitors : mon[m].pc = "save"

\* If processes are not killed, a removed restriction is remembered by a running
\* one that has yet to restore it, however many overlap during a deployment.
RemovalIsRemembered ==
  env.killPoints = {} /\ rule = NoRestriction =>
    \E m \in Monitors : mon[m].phase = "activated" /\ mon[m].pc # "forget"

\* A process that polls the website, alone and on a durable bucket, knows that
\* the restriction is in place: it never sits in the monitoring phase while the
\* rule is open.
PollingMeansRestricted ==
  Alone /\ Durable =>
    \A m \in Monitors :
      mon[m].pc = "loop" /\ mon[m].phase # "activated" => rule # NoRestriction

\* Whatever a single process removes comes back unchanged, if AWS answers: the
\* condition is either absent or what the operators configured, after any number
\* of activations, kills and lost records.
OriginalMethodsComeBack ==
  Alone /\ ~env.elbFaults => rule \in {NoRestriction, ConfiguredMethods}

\* Seen from the load balancer a single process on a durable bucket grants a
\* lease: once removed, the restriction stays removed for at least
\* ActivationDuration.
Lease == INSTANCE ProtectionLease
           WITH engaged <- Alone /\ Durable /\ rule = NoRestriction,
                age <- IF Alone /\ Durable THEN ruleAge ELSE ActivationDuration

ImplementsLease == Lease!Spec

\* The conjuncts that make the invariants above inductive: a process that may
\* still restore the rule knows the methods; a process that polls, is about to
\* remove, or has just restored, faces a restricted rule; phases agree with
\* the program counter.
MethodsKnown ==
  \A m \in Monitors :
    \/ mon[m].phase = "activated"
    \/ mon[m].pc \in {"inspect", "remove", "save", "reinspect", "restore"}
    => mon[m].original_http_methods # NoRestriction

KnowsRestricted ==
  \A m \in Monitors :
    \/ mon[m].pc \in {"loop", "capture", "inspect", "remove"}
         /\ mon[m].phase # "activated"
    \/ mon[m].pc = "forget"
    => rule # NoRestriction

PhasesAgree ==
  \A m \in Monitors :
    /\ mon[m].pc = "save" => mon[m].phase = "activated"
    /\ mon[m].pc \in {"stopped", "load", "capture", "inspect", "remove"}
         => mon[m].phase = "monitoring"

\* "This protection will be automatically removed after 1 hour": if the load
\* balancer API recovers for good and processes stop being killed, the
\* restriction is in place again and again.
ProtectionIsRemovedAgain ==
  <>[](elbUp /\ \A m \in env.running : mon[m].pc # "stopped")
    => []<>(rule # NoRestriction)

\* The same of a single process on a durable bucket, and of processes that are
\* not killed.
RememberedProtectionIsRemovedAgain ==
  (Alone /\ Durable) \/ env.killPoints = {} => ProtectionIsRemovedAgain

===============================================================================
