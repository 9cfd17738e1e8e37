------------------------- MODULE WebsiteMonitorProofs -------------------------
(* Theorems about WebsiteMonitor for every value of its constants.         *)
EXTENDS WebsiteMonitor, TLAPS

\* Processes that are not deployed do nothing.
Dormant == \A m \in Monitors \ env.running : mon[m].pc = "stopped"

\* Phases fit the program counters and restorers know the methods.
ControlInv == MethodsKnown /\ PhasesAgree /\ Dormant

LEMMA EnvStays == [Next]_vars => env' = env
  BY DEF Next, vars, Start, CheckWebsite, SiteUp, SiteDown, Progress,
     InitializeWithoutRecord, InitializeFromRecord, CheckActivationTimeout,
     CheckGracePeriod, CaptureMethods, InspectBeforeRemoval,
     RemoveRestriction, SaveState, InspectBeforeRestore, RestoreRestriction,
     ForgetAndRest, Kill, Tick, ElbChanges, S3Changes

-------------------------------------------------------------------------------

\* Ages never leave their range.
LEMMA OlderInAges == \A a \in Ages : Older(a) \in Ages
  BY TimingAssumption DEF Older, Ages

\* Replacing a process's state by a MonitorState keeps mon well typed.
LEMMA UpdateTyped ==
  ASSUME NEW m \in Monitors, NEW s \in MonitorState, TypeOK, Update(m, s)
  PROVE  mon' \in [Monitors -> MonitorState]
  BY DEF TypeOK, Update

\* The state a process starts with is well typed.
LEMMA BlankTyped ==
  \A label \in Labels : Blank(label) \in MonitorState
  BY TimingAssumption DEF Blank, MonitorState, Phases, Ages

\* What each way of updating a process's state leaves behind.
LEMMA UpdateEffect ==
  ASSUME NEW m \in Monitors, NEW s, TypeOK, Update(m, s)
  PROVE  mon'[m] = s /\ \A n \in Monitors \ {m} : mon'[n] = mon[n]
  BY DEF TypeOK, Update

LEMMA GoToEffect ==
  ASSUME NEW m \in Monitors, NEW label, TypeOK, GoTo(m, label)
  PROVE  /\ mon'[m].pc = label
         /\ mon'[m].phase = mon[m].phase
         /\ mon'[m].since = mon[m].since
         /\ mon'[m].original_http_methods = mon[m].original_http_methods
         /\ \A n \in Monitors \ {m} : mon'[n] = mon[n]
  <1>1. mon[m] \in MonitorState
    BY DEF TypeOK
  <1>2. /\ mon'[m] = [mon[m] EXCEPT !.pc = label]
        /\ \A n \in Monitors \ {m} : mon'[n] = mon[n]
    BY UpdateEffect DEF GoTo
  <1> QED BY <1>1, <1>2 DEF MonitorState

LEMMA GiveUpEffect ==
  ASSUME NEW m \in Monitors, TypeOK, GiveUpRemoval(m)
  PROVE  /\ mon'[m].pc = "loop"
         /\ mon'[m].phase = mon[m].phase
         /\ \A n \in Monitors \ {m} : mon'[n] = mon[n]
  <1>1. mon[m] \in MonitorState
    BY DEF TypeOK
  <1>2. /\ mon'[m] = [mon[m] EXCEPT !.pc = "loop",
                                    !.original_http_methods = NoRestriction]
        /\ \A n \in Monitors \ {m} : mon'[n] = mon[n]
    BY UpdateEffect DEF GiveUpRemoval
  <1> QED BY <1>1, <1>2 DEF MonitorState

LEMMA RestoreFailedEffect ==
  ASSUME NEW m \in Monitors, TypeOK, RestoreFailed(m)
  PROVE  /\ mon'[m].pc = "loop"
         /\ mon'[m].phase = "activated"
         /\ mon'[m].since = ActivationDuration
         /\ mon'[m].original_http_methods = mon[m].original_http_methods
         /\ \A n \in Monitors \ {m} : mon'[n] = mon[n]
  <1>1. mon[m] \in MonitorState
    BY DEF TypeOK
  <1>2. /\ mon'[m] = [mon[m] EXCEPT !.pc = "loop", !.phase = "activated",
                                    !.since = ActivationDuration]
        /\ \A n \in Monitors \ {m} : mon'[n] = mon[n]
    BY UpdateEffect DEF RestoreFailed
  <1> QED BY <1>1, <1>2 DEF MonitorState

LEMMA RemovalEffect ==
  ASSUME NEW m \in Monitors, TypeOK, RemoveRestriction(m), elbUp
  PROVE  /\ mon'[m].pc = "save"
         /\ mon'[m].phase = "activated"
         /\ mon'[m].since = 0
         /\ mon'[m].original_http_methods = mon[m].original_http_methods
         /\ \A n \in Monitors \ {m} : mon'[n] = mon[n]
  <1>1. mon[m] \in MonitorState
    BY DEF TypeOK
  <1>2. /\ mon'[m] = [mon[m] EXCEPT !.pc = "save", !.phase = "activated",
                                    !.since = 0]
        /\ \A n \in Monitors \ {m} : mon'[n] = mon[n]
    BY UpdateEffect DEF RemoveRestriction
  <1> QED BY <1>1, <1>2 DEF MonitorState

\* The control part of every step a process can make: where it goes, which
\* phase it is in afterwards, what it leaves of the rule, and on what ground.
LEMMA CheckWebsiteEffect ==
  ASSUME NEW m \in Monitors, TypeOK, CheckWebsite(m)
  PROVE  /\ mon[m].pc = "loop"
         /\ mon[m].phase = "monitoring"
         /\ mon'[m].pc \in {"loop", "capture"}
         /\ mon'[m].phase = "monitoring"
         /\ \A n \in Monitors \ {m} : mon'[n] = mon[n]
         /\ UNCHANGED <<env, rule, s3, s3Up>>
  <1>1. mon[m] \in MonitorState
    BY DEF TypeOK
  <1>2. CASE SiteUp(m)
    <2>1. /\ mon'[m] = [mon[m] EXCEPT !.consecutive_failures = 0]
          /\ \A n \in Monitors \ {m} : mon'[n] = mon[n]
      BY <1>2, UpdateEffect DEF SiteUp
    <2> QED BY <1>1, <1>2, <2>1 DEF SiteUp, MonitorState
  <1>3. CASE SiteDown(m)
    <2> DEFINE reached == mon[m].consecutive_failures + 1 >= SiteDownThreshold
    <2> DEFINE next ==
          [mon[m] EXCEPT
             !.consecutive_failures =
                IF reached THEN SiteDownThreshold
                ELSE mon[m].consecutive_failures + 1,
             !.pc = IF reached THEN "capture" ELSE "loop"]
    <2>1. mon'[m] = next /\ \A n \in Monitors \ {m} : mon'[n] = mon[n]
      BY <1>3, UpdateEffect DEF SiteDown
    <2>2. next.pc = (IF reached THEN "capture" ELSE "loop")
          /\ next.phase = mon[m].phase
      BY <1>1 DEF MonitorState
    <2> HIDE DEF next, reached
    <2> QED BY <1>3, <2>1, <2>2 DEF SiteDown
  <1> QED BY <1>2, <1>3 DEF CheckWebsite

\* A step from a well-typed state in which restorers know the methods leads to
\* a well-typed state.
LEMMA TypePreserved ==
  ASSUME TypeOK, MethodsKnown, [Next]_vars
  PROVE  TypeOK'
  <1> USE TimingAssumption, MethodsAssumption
  <1>t. /\ \A m \in Monitors : mon[m] \in MonitorState
        /\ 0 \in Ages /\ ActivationDuration \in Ages
    BY DEF TypeOK, Ages
  <1>g. ASSUME NEW m \in Monitors, NEW label \in Labels, GoTo(m, label)
        PROVE  mon' \in [Monitors -> MonitorState]
    <2>1. [mon[m] EXCEPT !.pc = label] \in MonitorState
      BY <1>t DEF MonitorState
    <2> QED BY <1>g, <2>1, UpdateTyped DEF GoTo
  <1>f. ASSUME NEW m \in Monitors, RestoreFailed(m)
        PROVE  mon' \in [Monitors -> MonitorState]
    <2>1. [mon[m] EXCEPT !.pc = "loop", !.phase = "activated",
                         !.since = ActivationDuration] \in MonitorState
      BY <1>t DEF MonitorState, Labels, Phases
    <2> QED BY <1>f, <2>1, UpdateTyped DEF RestoreFailed
  <1>u. ASSUME NEW m \in Monitors, GiveUpRemoval(m)
        PROVE  mon' \in [Monitors -> MonitorState]
    <2>1. [mon[m] EXCEPT !.pc = "loop",
             !.original_http_methods = NoRestriction] \in MonitorState
      BY <1>t DEF MonitorState, Labels
    <2> QED BY <1>u, <2>1, UpdateTyped DEF GiveUpRemoval
  <1>1. ASSUME NEW m \in Monitors, Start(m) PROVE TypeOK'
    BY <1>1, BlankTyped, UpdateTyped DEF Start, TypeOK, Labels
  <1>2. ASSUME NEW m \in Monitors, CheckWebsite(m) PROVE TypeOK'
    <2>1. CASE SiteUp(m)
      <3>1. [mon[m] EXCEPT !.consecutive_failures = 0] \in MonitorState
        BY <1>t DEF MonitorState
      <3> QED BY <2>1, <3>1, UpdateTyped DEF SiteUp, TypeOK
    <2>2. CASE SiteDown(m)
      <3> DEFINE failures == mon[m].consecutive_failures
      <3> DEFINE reached == failures + 1 >= SiteDownThreshold
      <3>1. failures \in 0..SiteDownThreshold
        BY <1>t DEF MonitorState
      <3>2. (IF reached THEN SiteDownThreshold ELSE failures + 1)
              \in 0..SiteDownThreshold
        BY <3>1
      <3>3. (IF reached THEN "capture" ELSE "loop") \in Labels
        BY DEF Labels
      <3>4. [mon[m] EXCEPT
               !.consecutive_failures =
                  IF reached THEN SiteDownThreshold ELSE failures + 1,
               !.pc = IF reached THEN "capture" ELSE "loop"]
              \in MonitorState
        BY <1>t, <3>2, <3>3 DEF MonitorState
      <3> QED BY <2>2, <3>4, UpdateTyped DEF SiteDown, TypeOK
    <2> QED BY <1>2, <2>1, <2>2 DEF CheckWebsite
  <1>3. ASSUME NEW m \in Monitors, Progress(m) PROVE TypeOK'
    <2>1. CASE InitializeWithoutRecord(m)
      BY <2>1, <1>g DEF InitializeWithoutRecord, TypeOK, Labels
    <2>2. CASE InitializeFromRecord(m)
      <3>1. s3.age \in Ages /\ s3.methods \in Methods
        BY <2>2 DEF InitializeFromRecord, NothingLoaded, OwnRecord, TypeOK,
                    Records
      <3>2. [mon[m] EXCEPT !.pc = "reinspect",
                           !.original_http_methods = s3.methods]
              \in MonitorState
        BY <1>t, <3>1 DEF MonitorState, Labels
      <3>3. [mon[m] EXCEPT !.pc = "loop", !.phase = "activated",
                           !.since = s3.age,
                           !.original_http_methods = s3.methods]
              \in MonitorState
        BY <1>t, <3>1 DEF MonitorState, Labels, Phases
      <3> QED
        BY <2>2, <3>2, <3>3, UpdateTyped DEF InitializeFromRecord, TypeOK
    <2>3. CASE CheckActivationTimeout(m)
      BY <2>3, <1>g DEF CheckActivationTimeout, TypeOK, Labels
    <2>4. CASE CheckGracePeriod(m)
      BY <2>4, BlankTyped, UpdateTyped DEF CheckGracePeriod, TypeOK, Labels
    <2>5. CASE CaptureMethods(m)
      <3>1. (IF elbUp /\ rule # NoRestriction THEN rule ELSE DefaultMethods)
              \in Methods
        BY DEF TypeOK
      <3>2. [mon[m] EXCEPT
               !.pc = "inspect",
               !.original_http_methods =
                  IF elbUp /\ rule # NoRestriction THEN rule
                  ELSE DefaultMethods] \in MonitorState
        BY <1>t, <3>1 DEF MonitorState, Labels
      <3> QED BY <2>5, <3>2, UpdateTyped DEF CaptureMethods, TypeOK
    <2>6. CASE InspectBeforeRemoval(m)
      BY <2>6, <1>g, <1>u DEF InspectBeforeRemoval, TypeOK, Labels
    <2>7. CASE RemoveRestriction(m)
      <3>1. [mon[m] EXCEPT !.pc = "save", !.phase = "activated", !.since = 0]
              \in MonitorState
        BY <1>t DEF MonitorState, Labels, Phases
      <3>2. mon' \in [Monitors -> MonitorState]
        BY <2>7, <3>1, <1>u, UpdateTyped DEF RemoveRestriction
      <3> QED BY <2>7, <3>2 DEF RemoveRestriction, TypeOK, Ages
    <2>8. CASE SaveState(m)
      <3>1. mon' \in [Monitors -> MonitorState]
        BY <2>8, <1>g DEF SaveState, Labels
      <3>2. mon[m].since \in Ages /\ mon[m].original_http_methods \in Methods
        BY <2>8, <1>t DEF SaveState, MethodsKnown, MonitorState
      <3>3. s3' \in Records \cup {NoRecord}
        BY <2>8, <3>2 DEF SaveState, TypeOK, Records
      <3> QED BY <2>8, <3>1, <3>3 DEF SaveState, TypeOK
    <2>9. CASE InspectBeforeRestore(m)
      BY <2>9, <1>g, <1>f DEF InspectBeforeRestore, TypeOK, Labels
    <2>10. CASE RestoreRestriction(m)
      <3>1. mon' \in [Monitors -> MonitorState]
        BY <2>10, <1>g, <1>f DEF RestoreRestriction, Labels
      <3>2. mon[m].original_http_methods \in Methods \cup {NoRestriction}
        BY <1>t DEF MonitorState
      <3> QED
        BY <2>10, <3>1, <3>2 DEF RestoreRestriction, TypeOK, Ages
    <2>11. CASE ForgetAndRest(m)
      <3>1. [Blank("loop") EXCEPT !.phase = "grace_period"] \in MonitorState
        BY BlankTyped DEF MonitorState, Labels, Phases
      <3> QED BY <2>11, <3>1, UpdateTyped DEF ForgetAndRest, TypeOK
    <2> QED
      BY <1>3, <2>1, <2>2, <2>3, <2>4, <2>5, <2>6, <2>7, <2>8, <2>9, <2>10,
         <2>11 DEF Progress
  <1>4. ASSUME NEW m \in Monitors, Kill(m) PROVE TypeOK'
    BY <1>4, BlankTyped, UpdateTyped DEF Kill, TypeOK, Labels
  <1>5. CASE Tick
    <2>1. ASSUME NEW m \in Monitors
          PROVE  [mon[m] EXCEPT !.since = Older(mon[m].since)]
                    \in MonitorState
      <3>1. Older(mon[m].since) \in Ages
        BY <1>t, OlderInAges DEF MonitorState
      <3> QED BY <1>t, <3>1 DEF MonitorState
    <2>2. mon' \in [Monitors -> MonitorState]
      BY <1>5, <1>t, <2>1 DEF Tick
    <2>3. s3' \in Records \cup {NoRecord}
      <3>1. CASE s3 = NoRecord
        BY <1>5, <3>1 DEF Tick
      <3>2. CASE s3 # NoRecord
        <4>1. s3 \in Records /\ Older(s3.age) \in Ages
          BY <3>2, OlderInAges DEF TypeOK, Records
        <4>2. [s3 EXCEPT !.age = Older(s3.age)] \in Records
          BY <4>1 DEF Records
        <4> QED BY <1>5, <3>2, <4>2 DEF Tick
      <3> QED BY <3>1, <3>2
    <2> QED BY <1>5, <2>2, <2>3, OlderInAges DEF Tick, TypeOK
  <1>6. CASE ElbChanges
    BY <1>6 DEF ElbChanges, TypeOK
  <1>7. CASE S3Changes
    BY <1>7 DEF S3Changes, TypeOK
  <1>8. CASE UNCHANGED vars
    BY <1>8 DEF vars, TypeOK
  <1> QED
    BY <1>1, <1>2, <1>3, <1>4, <1>5, <1>6, <1>7, <1>8 DEF Next

\* The same step keeps phases and program counters in agreement, and the
\* methods known to whoever may restore the rule.
LEMMA ControlPreserved ==
  ASSUME TypeOK, ControlInv, [Next]_vars
  PROVE  ControlInv'
  <1> USE MethodsAssumption DEF ControlInv, MethodsKnown, PhasesAgree, Dormant
  <1>t. /\ \A m \in Monitors : mon[m] \in MonitorState
        /\ mon \in [Monitors -> MonitorState]
    BY DEF TypeOK
  <1>1. ASSUME NEW m \in Monitors, Start(m) PROVE ControlInv'
    BY <1>1, <1>t DEF Start, Update, Blank
  <1>2. ASSUME NEW m \in Monitors, CheckWebsite(m) PROVE ControlInv'
    <2>1. mon[m].pc = "loop" /\ mon[m].phase = "monitoring"
      BY <1>2, CheckWebsiteEffect
    <2> QED BY <1>2, CheckWebsiteEffect
  <1>3. ASSUME NEW m \in Monitors, Progress(m) PROVE ControlInv'
    <2>1. CASE InitializeWithoutRecord(m)
      BY <2>1, GoToEffect DEF InitializeWithoutRecord
    <2>2. CASE InitializeFromRecord(m)
      <3>1. s3.methods # NoRestriction
        BY <2>2 DEF InitializeFromRecord, NothingLoaded, OwnRecord, TypeOK,
                    Records
      <3> QED BY <2>2, <3>1, <1>t DEF InitializeFromRecord, Update, MonitorState
    <2>3. CASE CheckActivationTimeout(m)
      BY <2>3, GoToEffect DEF CheckActivationTimeout
    <2>4. CASE CheckGracePeriod(m)
      BY <2>4, <1>t DEF CheckGracePeriod, Update, Blank
    <2>5. CASE CaptureMethods(m)
      BY <2>5, <1>t DEF CaptureMethods, Update, MonitorState
    <2>6. CASE InspectBeforeRemoval(m)
      BY <2>6, GoToEffect, GiveUpEffect DEF InspectBeforeRemoval
    <2>7. CASE RemoveRestriction(m)
      <3>1. CASE elbUp
        <4>1. mon[m].pc = "remove" /\ env' = env
          BY <2>7 DEF RemoveRestriction
        <4>2. /\ mon'[m].pc = "save" /\ mon'[m].phase = "activated"
              /\ mon'[m].original_http_methods = mon[m].original_http_methods
              /\ \A n \in Monitors \ {m} : mon'[n] = mon[n]
          BY <2>7, <3>1, RemovalEffect
        <4> QED BY <4>1, <4>2
      <3>2. CASE ~elbUp
        BY <2>7, <3>2, GiveUpEffect DEF RemoveRestriction
      <3> QED BY <3>1, <3>2
    <2>8. CASE SaveState(m)
      BY <2>8, GoToEffect DEF SaveState
    <2>9. CASE InspectBeforeRestore(m)
      BY <2>9, GoToEffect, RestoreFailedEffect DEF InspectBeforeRestore
    <2>10. CASE RestoreRestriction(m)
      BY <2>10, GoToEffect, RestoreFailedEffect DEF RestoreRestriction
    <2>11. CASE ForgetAndRest(m)
      BY <2>11, <1>t DEF ForgetAndRest, Update, Blank
    <2> QED
      BY <1>3, <2>1, <2>2, <2>3, <2>4, <2>5, <2>6, <2>7, <2>8, <2>9, <2>10,
         <2>11 DEF Progress
  <1>4. ASSUME NEW m \in Monitors, Kill(m) PROVE ControlInv'
    BY <1>4, <1>t DEF Kill, Update, Blank
  <1>5. CASE Tick
    BY <1>5, <1>t DEF Tick, MonitorState
  <1>6. CASE ElbChanges \/ S3Changes \/ UNCHANGED vars
    BY <1>6 DEF ElbChanges, S3Changes, vars
  <1> QED
    BY <1>1, <1>2, <1>3, <1>4, <1>5, <1>6 DEF Next

\* Every variable keeps its type, phases agree with what the process is doing,
\* and whoever may restore the rule knows what to restore.
THEOREM TypeCorrect == Spec => [](TypeOK /\ ControlInv)
  <1>1. Init => TypeOK /\ ControlInv
    <2> SUFFICES ASSUME Init PROVE TypeOK /\ ControlInv
      OBVIOUS
    <2>1. TypeOK
      BY TimingAssumption, MethodsAssumption, BlankTyped
      DEF Init, TypeOK, Labels, Records, Ages
    <2>2. ControlInv
      BY DEF Init, ControlInv, MethodsKnown, PhasesAgree, Dormant, Blank
    <2> QED BY <2>1, <2>2
  <1>2. TypeOK /\ ControlInv /\ [Next]_vars => (TypeOK /\ ControlInv)'
    BY TypePreserved, ControlPreserved DEF ControlInv
  <1> QED
    BY <1>1, <1>2, PTL DEF Spec

-------------------------------------------------------------------------------

\* With a single process and a durable record, the following is inductive.
Recorded ==
  rule = NoRestriction => OwnRecord \/ \E m \in Monitors : mon[m].pc = "save"

RestartInv == Recorded /\ KnowsRestricted /\ s3Up

LEMMA RestartPreserved ==
  ASSUME Alone, Durable, TypeOK, ControlInv, RestartInv,
         [Next]_vars
  PROVE  RestartInv'
  <1> USE DEF RestartInv, Recorded, KnowsRestricted, OwnRecord
  <1>a. \A m, n \in Monitors :
          mon[m].pc # "stopped" /\ mon[n].pc # "stopped" => m = n
    BY DEF ControlInv, Dormant, Alone
  <1>s. s3Up'
    BY DEF Next, vars, Start, CheckWebsite, SiteUp, SiteDown, Progress,
       InitializeWithoutRecord, InitializeFromRecord, CheckActivationTimeout,
       CheckGracePeriod, CaptureMethods, InspectBeforeRemoval,
       RemoveRestriction, SaveState, InspectBeforeRestore, RestoreRestriction,
       ForgetAndRest, Kill, Tick, ElbChanges, S3Changes, Durable
  <1>1. ASSUME NEW m \in Monitors, Start(m) PROVE RestartInv'
    <2>1. mon'[m] = Blank("load") /\ \A n \in Monitors \ {m} : mon'[n] = mon[n]
      BY <1>1, UpdateEffect DEF Start
    <2> QED BY <1>1, <1>s, <2>1 DEF Start, Blank
  <1>2. ASSUME NEW m \in Monitors, CheckWebsite(m) PROVE RestartInv'
    <2>1. mon[m].pc = "loop" /\ mon[m].phase = "monitoring"
      BY <1>2, CheckWebsiteEffect
    <2> QED BY <1>2, <1>s, <2>1, CheckWebsiteEffect
  <1>3. ASSUME NEW m \in Monitors, Progress(m) PROVE RestartInv'
    <2>1. CASE InitializeWithoutRecord(m)
      <3>1. rule # NoRestriction
        BY <2>1, <1>a DEF InitializeWithoutRecord, NothingLoaded, Durable
      <3> QED BY <2>1, <1>s, <3>1 DEF InitializeWithoutRecord
    <2>2. CASE InitializeFromRecord(m)
      <3>1. mon[m] \in MonitorState
        BY DEF TypeOK
      <3>2. /\ \A n \in Monitors \ {m} : mon'[n] = mon[n]
            /\ \/ mon'[m].pc = "reinspect"
               \/ mon'[m].pc = "loop" /\ mon'[m].phase = "activated"
        <4>1. CASE s3.age = ActivationDuration
          <5>1. /\ mon'[m] = [mon[m] EXCEPT
                                !.pc = "reinspect",
                                !.original_http_methods = s3.methods]
                /\ \A n \in Monitors \ {m} : mon'[n] = mon[n]
            BY <2>2, <4>1, UpdateEffect DEF InitializeFromRecord
          <5> QED BY <3>1, <5>1 DEF MonitorState
        <4>2. CASE s3.age # ActivationDuration
          <5>1. /\ mon'[m] = [mon[m] EXCEPT
                                !.pc = "loop", !.phase = "activated",
                                !.since = s3.age,
                                !.original_http_methods = s3.methods]
                /\ \A n \in Monitors \ {m} : mon'[n] = mon[n]
            BY <2>2, <4>2, UpdateEffect DEF InitializeFromRecord
          <5> QED BY <3>1, <5>1 DEF MonitorState
        <4> QED BY <4>1, <4>2
      <3> QED BY <2>2, <1>s, <3>2 DEF InitializeFromRecord
    <2>3. CASE CheckActivationTimeout(m)
      BY <2>3, <1>s, GoToEffect DEF CheckActivationTimeout
    <2>4. CASE CheckGracePeriod(m)
      <3>1. /\ mon'[m] = Blank("loop")
            /\ \A n \in Monitors \ {m} : mon'[n] = mon[n]
        BY <2>4, UpdateEffect DEF CheckGracePeriod
      <3> QED BY <2>4, <1>s, <3>1 DEF CheckGracePeriod, Blank
    <2>5. CASE CaptureMethods(m)
      <3>1. mon[m] \in MonitorState
        BY DEF TypeOK
      <3>2. /\ mon'[m].pc = "inspect" /\ mon'[m].phase = mon[m].phase
            /\ \A n \in Monitors \ {m} : mon'[n] = mon[n]
        <4> DEFINE captured == IF elbUp /\ rule # NoRestriction THEN rule
                               ELSE DefaultMethods
        <4>1. /\ mon'[m] = [mon[m] EXCEPT !.pc = "inspect",
                                          !.original_http_methods = captured]
              /\ \A n \in Monitors \ {m} : mon'[n] = mon[n]
          BY <2>5, UpdateEffect DEF CaptureMethods
        <4> HIDE DEF captured
        <4> QED BY <3>1, <4>1 DEF MonitorState
      <3> QED BY <2>5, <1>s, <3>2 DEF CaptureMethods
    <2>6. CASE InspectBeforeRemoval(m)
      BY <2>6, <1>s, GoToEffect, GiveUpEffect DEF InspectBeforeRemoval
    <2>7. CASE RemoveRestriction(m)
      <3>1. CASE elbUp
        <4>1. mon[m].pc = "remove"
          BY <2>7 DEF RemoveRestriction
        <4>2. /\ mon'[m].pc = "save" /\ mon'[m].phase = "activated"
              /\ \A n \in Monitors \ {m} : mon'[n] = mon[n]
          BY <2>7, <3>1, RemovalEffect
        <4>3. \A n \in Monitors \ {m} : mon'[n].pc = "stopped"
          BY <1>a, <4>1, <4>2
        <4> QED BY <1>s, <4>2, <4>3
      <3>2. CASE ~elbUp
        BY <2>7, <1>s, <3>2, GiveUpEffect DEF RemoveRestriction
      <3> QED BY <3>1, <3>2
    <2>8. CASE SaveState(m)
      <3>1. s3' = [rule_arn |-> "this", age |-> mon[m].since,
                   methods |-> mon[m].original_http_methods]
        BY <2>8 DEF SaveState, Durable
      <3>2. s3' # NoRecord /\ s3'.rule_arn = "this"
        <4>1. s3' \in Records \cup {NoRecord}
          BY TypePreserved DEF TypeOK, ControlInv
        <4>2. s3' \in Records
          BY <3>1, <4>1, <2>8, NoRecordAssumption
          DEF Records, TypeOK, MonitorState, SaveState, ControlInv,
              MethodsKnown
        <4> QED BY <3>1, <4>2, NoRecordAssumption
      <3>3. mon[m].phase = "activated"
        BY <2>8 DEF SaveState, ControlInv, PhasesAgree
      <3> QED BY <2>8, <1>s, <3>2, <3>3, GoToEffect DEF SaveState
    <2>9. CASE InspectBeforeRestore(m)
      BY <2>9, <1>s, GoToEffect, RestoreFailedEffect DEF InspectBeforeRestore
    <2>10. CASE RestoreRestriction(m)
      <3>1. mon[m].original_http_methods # NoRestriction
        BY <2>10 DEF RestoreRestriction, ControlInv, MethodsKnown
      <3> QED
        BY <2>10, <1>s, <3>1, GoToEffect, RestoreFailedEffect
        DEF RestoreRestriction
    <2>11. CASE ForgetAndRest(m)
      <3>1. rule # NoRestriction /\ rule' = rule
        BY <2>11 DEF ForgetAndRest
      <3> QED BY <1>s, <3>1
    <2> QED
      BY <1>3, <2>1, <2>2, <2>3, <2>4, <2>5, <2>6, <2>7, <2>8, <2>9, <2>10,
         <2>11 DEF Progress
  <1>4. ASSUME NEW m \in Monitors, Kill(m) PROVE RestartInv'
    <2>1. /\ mon'[m] = Blank("stopped")
          /\ \A n \in Monitors \ {m} : mon'[n] = mon[n]
          /\ mon[m].pc # "save"
      BY <1>4, UpdateEffect DEF Kill, Durable
    <2> QED BY <1>4, <1>s, <2>1 DEF Kill, Blank
  <1>5. CASE Tick
    <2>1. \A m \in Monitors : /\ mon'[m].pc = mon[m].pc
                              /\ mon'[m].phase = mon[m].phase
      BY <1>5 DEF Tick, TypeOK, MonitorState
    <2>2. OwnRecord => OwnRecord'
      <3> SUFFICES ASSUME OwnRecord PROVE OwnRecord'
        OBVIOUS
      <3>1. s3 \in Records /\ s3' \in Records \cup {NoRecord}
        BY TypePreserved DEF TypeOK, ControlInv
      <3>2. s3' = [s3 EXCEPT !.age = Older(s3.age)]
        BY <1>5 DEF Tick
      <3>3. s3'.rule_arn = "this" /\ Older(s3.age) \in Ages
        BY <3>1, <3>2, OlderInAges DEF Records
      <3>4. s3' \in Records
        BY <3>1, <3>2, <3>3 DEF Records
      <3> QED BY <3>3, <3>4, NoRecordAssumption
    <2> QED BY <1>5, <1>s, <2>1, <2>2 DEF Tick
  <1>6. CASE ElbChanges \/ S3Changes \/ UNCHANGED vars
    BY <1>6, <1>s DEF ElbChanges, S3Changes, vars
  <1> QED
    BY <1>1, <1>2, <1>3, <1>4, <1>5, <1>6 DEF Next

LEMMA RestartAlways == Spec => [](Alone /\ Durable => RestartInv)
  <1>1. Init => (Alone /\ Durable => RestartInv)
    BY MethodsAssumption DEF Init, RestartInv, Recorded, KnowsRestricted, Blank
  <1>2. TypeOK /\ ControlInv /\ (Alone /\ Durable => RestartInv) /\ [Next]_vars
          => (Alone /\ Durable => RestartInv)'
    BY RestartPreserved, EnvStays DEF Alone, Durable
  <1> QED
    BY <1>1, <1>2, TypeCorrect, PTL DEF Spec

\* If one process runs at a time, the bucket works and no kill falls between
\* modify-rule and the write to S3, then a removed restriction is always on
\* record for the next process to find.
THEOREM RemovalRecorded == Spec => []RemovalIsRecorded
  <1>1. (Alone /\ Durable => RestartInv) => RemovalIsRecorded
    BY DEF RestartInv, Recorded, RemovalIsRecorded
  <1> QED
    BY <1>1, RestartAlways, PTL

\* Under the same conditions a polling process always faces a restricted rule:
\* no restart leaves the rule open with nobody about to close it.
THEOREM PollingRestricted == Spec => []PollingMeansRestricted
  <1>1. (Alone /\ Durable => RestartInv) => PollingMeansRestricted
    BY DEF RestartInv, KnowsRestricted, PollingMeansRestricted
  <1> QED
    BY <1>1, RestartAlways, PTL

-------------------------------------------------------------------------------

\* With any number of overlapping processes, none of which is killed, the
\* restriction is never removed without a running process that will restore it.
LEMMA RememberedPreserved ==
  ASSUME env.killPoints = {}, TypeOK, ControlInv, RemovalIsRemembered, [Next]_vars
  PROVE  RemovalIsRemembered'
  <1> USE DEF RemovalIsRemembered
  <1>0. SUFFICES ASSUME rule' = NoRestriction
                 PROVE  \E k \in Monitors :
                          mon'[k].phase = "activated" /\ mon'[k].pc # "forget"
    OBVIOUS
  <1> DEFINE Goal == \E k \in Monitors :
                       mon'[k].phase = "activated" /\ mon'[k].pc # "forget"
  \* If m is not the process that remembers, that one is unchanged.
  <1>o. ASSUME NEW m \in Monitors, rule = NoRestriction,
               \A n \in Monitors \ {m} : mon'[n] = mon[n],
               mon[m].phase # "activated" \/ mon[m].pc = "forget"
        PROVE  Goal
    BY <1>o
  <1>1. ASSUME NEW m \in Monitors, Start(m) PROVE Goal
    <2>1. mon[m].phase # "activated" /\ rule' = rule
          /\ \A n \in Monitors \ {m} : mon'[n] = mon[n]
      BY <1>1, UpdateEffect DEF Start, ControlInv, PhasesAgree
    <2> QED BY <1>0, <1>o, <2>1
  <1>2. ASSUME NEW m \in Monitors, CheckWebsite(m) PROVE Goal
    <2>1. mon[m].phase # "activated" /\ rule' = rule
          /\ \A n \in Monitors \ {m} : mon'[n] = mon[n]
      BY <1>2, CheckWebsiteEffect
    <2> QED BY <1>0, <1>o, <2>1
  <1>3. ASSUME NEW m \in Monitors, Progress(m) PROVE Goal
    <2>1. CASE InitializeWithoutRecord(m)
      BY <1>0, <2>1, GoToEffect DEF InitializeWithoutRecord
    <2>2. CASE InitializeFromRecord(m)
      <3>1. mon[m].phase # "activated" /\ rule' = rule
            /\ \A n \in Monitors \ {m} : mon'[n] = mon[n]
        BY <2>2, UpdateEffect DEF InitializeFromRecord, ControlInv, PhasesAgree
      <3> QED BY <1>0, <1>o, <3>1
    <2>3. CASE CheckActivationTimeout(m)
      BY <1>0, <2>3, GoToEffect DEF CheckActivationTimeout
    <2>4. CASE CheckGracePeriod(m)
      <3>1. mon[m].phase # "activated" /\ rule' = rule
            /\ \A n \in Monitors \ {m} : mon'[n] = mon[n]
        BY <2>4, UpdateEffect DEF CheckGracePeriod
      <3> QED BY <1>0, <1>o, <3>1
    <2>5. CASE CaptureMethods(m)
      <3>1. mon[m].phase # "activated" /\ rule' = rule
            /\ \A n \in Monitors \ {m} : mon'[n] = mon[n]
        BY <2>5, UpdateEffect DEF CaptureMethods, ControlInv, PhasesAgree
      <3> QED BY <1>0, <1>o, <3>1
    <2>6. CASE InspectBeforeRemoval(m)
      <3>1. mon[m].phase # "activated" /\ rule' = rule
            /\ \A n \in Monitors \ {m} : mon'[n] = mon[n]
        BY <2>6, GoToEffect, GiveUpEffect
        DEF InspectBeforeRemoval, ControlInv, PhasesAgree
      <3> QED BY <1>0, <1>o, <3>1
    <2>7. CASE RemoveRestriction(m)
      <3>1. CASE elbUp
        BY <2>7, <3>1, RemovalEffect
      <3>2. CASE ~elbUp
        <4>1. mon[m].phase # "activated" /\ rule' = rule
              /\ \A n \in Monitors \ {m} : mon'[n] = mon[n]
          BY <2>7, <3>2, GiveUpEffect
          DEF RemoveRestriction, ControlInv, PhasesAgree
        <4> QED BY <1>0, <1>o, <4>1
      <3> QED BY <3>1, <3>2
    <2>8. CASE SaveState(m)
      BY <1>0, <2>8, GoToEffect DEF SaveState
    <2>9. CASE InspectBeforeRestore(m)
      BY <1>0, <2>9, GoToEffect, RestoreFailedEffect DEF InspectBeforeRestore
    <2>10. CASE RestoreRestriction(m)
      <3>1. mon[m].original_http_methods # NoRestriction
        BY <2>10 DEF RestoreRestriction, ControlInv, MethodsKnown
      <3> QED
        BY <1>0, <2>10, <3>1, RestoreFailedEffect DEF RestoreRestriction
    <2>11. CASE ForgetAndRest(m)
      <3>1. mon[m].pc = "forget" /\ rule' = rule
            /\ \A n \in Monitors \ {m} : mon'[n] = mon[n]
        BY <2>11, UpdateEffect DEF ForgetAndRest
      <3> QED BY <1>0, <1>o, <3>1
    <2> QED
      BY <1>3, <2>1, <2>2, <2>3, <2>4, <2>5, <2>6, <2>7, <2>8, <2>9, <2>10,
         <2>11 DEF Progress
  <1>4. ASSUME NEW m \in Monitors, Kill(m) PROVE Goal
    BY <1>4 DEF Kill
  <1>5. CASE Tick
    <2>1. \A m \in Monitors : /\ mon'[m].pc = mon[m].pc
                              /\ mon'[m].phase = mon[m].phase
      BY <1>5 DEF Tick, TypeOK, MonitorState
    <2> QED BY <1>0, <1>5, <2>1 DEF Tick
  <1>6. CASE ElbChanges \/ S3Changes \/ UNCHANGED vars
    BY <1>0, <1>6 DEF ElbChanges, S3Changes, vars
  <1> QED
    BY <1>1, <1>2, <1>3, <1>4, <1>5, <1>6 DEF Next

\* However many processes overlap during a deployment, as long as they run to
\* completion a removed restriction is remembered by one of them.
THEOREM RemovalRemembered == Spec => []RemovalIsRemembered
  <1>1. Init => RemovalIsRemembered
    BY MethodsAssumption DEF Init, RemovalIsRemembered
  <1>2. TypeOK /\ ControlInv /\ RemovalIsRemembered /\ [Next]_vars
          => RemovalIsRemembered'
    BY RememberedPreserved, EnvStays DEF RemovalIsRemembered
  <1> QED
    BY <1>1, <1>2, TypeCorrect, PTL DEF Spec

-------------------------------------------------------------------------------

\* Why the condition comes back unchanged: a single process faces either the
\* configured condition or none, and whatever remembers methods, the process
\* that restores or the record, remembers the configured ones.
Faithful ==
  /\ elbUp
  /\ rule \in {NoRestriction, ConfiguredMethods}
  /\ OwnRecord => s3.methods = ConfiguredMethods
  /\ \A m \in Monitors :
       \/ mon[m].phase = "activated"
       \/ mon[m].pc \in {"remove", "save", "reinspect", "restore"}
       \/ mon[m].pc = "inspect" /\ rule # NoRestriction
       => mon[m].original_http_methods = ConfiguredMethods

\* Only one process is not stopped, and elbv2 stays up.
LEMMA SingleProcess ==
  ASSUME Alone, ControlInv
  PROVE  \A m, n \in Monitors :
           mon[m].pc # "stopped" /\ mon[n].pc # "stopped" => m = n
  BY DEF ControlInv, Dormant, Alone

LEMMA ElbStaysUp ==
  ASSUME ~env.elbFaults, elbUp, [Next]_vars PROVE elbUp'
  BY DEF Next, vars, Start, CheckWebsite, SiteUp, SiteDown, Progress,
     InitializeWithoutRecord, InitializeFromRecord, CheckActivationTimeout,
     CheckGracePeriod, CaptureMethods, InspectBeforeRemoval,
     RemoveRestriction, SaveState, InspectBeforeRestore, RestoreRestriction,
     ForgetAndRest, Kill, Tick, ElbChanges, S3Changes

\* The effects of the two steps that take methods over: from the record, and
\* from the rule.
LEMMA FromRecordEffect ==
  ASSUME NEW m \in Monitors, TypeOK, InitializeFromRecord(m)
  PROVE  /\ OwnRecord
         /\ mon'[m].original_http_methods = s3.methods
         /\ \A n \in Monitors \ {m} : mon'[n] = mon[n]
         /\ \/ /\ s3.age = ActivationDuration
               /\ mon'[m].pc = "reinspect"
               /\ mon'[m].phase = mon[m].phase
               /\ mon'[m].since = mon[m].since
            \/ /\ mon'[m].pc = "loop"
               /\ mon'[m].phase = "activated"
               /\ mon'[m].since = s3.age
  <1>1. mon[m] \in MonitorState
    BY DEF TypeOK
  <1>2. CASE s3.age = ActivationDuration
    <2>1. /\ mon'[m] = [mon[m] EXCEPT !.pc = "reinspect",
                                      !.original_http_methods = s3.methods]
          /\ \A n \in Monitors \ {m} : mon'[n] = mon[n]
      BY <1>2, UpdateEffect DEF InitializeFromRecord
    <2> QED BY <1>1, <1>2, <2>1 DEF MonitorState, InitializeFromRecord, NothingLoaded
  <1>3. CASE s3.age # ActivationDuration
    <2>1. /\ mon'[m] = [mon[m] EXCEPT !.pc = "loop", !.phase = "activated",
                                      !.since = s3.age,
                                      !.original_http_methods = s3.methods]
          /\ \A n \in Monitors \ {m} : mon'[n] = mon[n]
      BY <1>3, UpdateEffect DEF InitializeFromRecord
    <2> QED BY <1>1, <2>1 DEF MonitorState, InitializeFromRecord, NothingLoaded
  <1> QED BY <1>2, <1>3

LEMMA CaptureEffect ==
  ASSUME NEW m \in Monitors, TypeOK, CaptureMethods(m)
  PROVE  /\ mon'[m].pc = "inspect"
         /\ mon'[m].phase = mon[m].phase
         /\ elbUp /\ rule # NoRestriction => mon'[m].original_http_methods = rule
         /\ \A n \in Monitors \ {m} : mon'[n] = mon[n]
  <1> DEFINE captured == IF elbUp /\ rule # NoRestriction THEN rule
                         ELSE DefaultMethods
  <1>1. mon[m] \in MonitorState
    BY DEF TypeOK
  <1>2. /\ mon'[m] = [mon[m] EXCEPT !.pc = "inspect",
                                    !.original_http_methods = captured]
        /\ \A n \in Monitors \ {m} : mon'[n] = mon[n]
    BY UpdateEffect DEF CaptureMethods
  <1>3. elbUp /\ rule # NoRestriction => captured = rule
    OBVIOUS
  <1> HIDE DEF captured
  <1> QED BY <1>1, <1>2, <1>3 DEF MonitorState

\* A removal or a restoration concerns no other process: all others are stopped.
LEMMA FaithfulPreserved ==
  ASSUME Alone, ~env.elbFaults, TypeOK, ControlInv, Faithful, [Next]_vars
  PROVE  Faithful'
  <1> USE MethodsAssumption DEF Faithful, OwnRecord
  <1>t. /\ \A m \in Monitors : mon[m] \in MonitorState
        /\ elbUp'
    BY ElbStaysUp DEF TypeOK
  <1>s. \A m, n \in Monitors :
          mon[m].pc # "stopped" /\ mon[n].pc # "stopped" => m = n
    BY SingleProcess
  <1>p. \A n \in Monitors : mon[n].pc = "stopped" => mon[n].phase = "monitoring"
    BY DEF ControlInv, PhasesAgree
  <1>1. ASSUME NEW m \in Monitors, Start(m) PROVE Faithful'
    <2>1. mon'[m] = Blank("load") /\ \A n \in Monitors \ {m} : mon'[n] = mon[n]
      BY <1>1, UpdateEffect DEF Start
    <2> QED BY <1>1, <1>t, <2>1 DEF Start, Blank
  <1>2. ASSUME NEW m \in Monitors, CheckWebsite(m) PROVE Faithful'
    BY <1>2, <1>t, CheckWebsiteEffect
  <1>3. ASSUME NEW m \in Monitors, Progress(m) PROVE Faithful'
    <2>1. CASE InitializeWithoutRecord(m)
      BY <2>1, <1>t, GoToEffect DEF InitializeWithoutRecord
    <2>2. CASE InitializeFromRecord(m)
      <3>1. UNCHANGED <<rule, s3>>
        BY <2>2 DEF InitializeFromRecord
      <3>2. /\ mon'[m].original_http_methods = ConfiguredMethods
            /\ \A n \in Monitors \ {m} : mon'[n] = mon[n]
        BY <2>2, FromRecordEffect
      <3> QED BY <1>t, <3>1, <3>2
    <2>3. CASE CheckActivationTimeout(m)
      BY <2>3, <1>t, GoToEffect DEF CheckActivationTimeout
    <2>4. CASE CheckGracePeriod(m)
      <3>1. /\ mon'[m] = Blank("loop")
            /\ \A n \in Monitors \ {m} : mon'[n] = mon[n]
        BY <2>4, UpdateEffect DEF CheckGracePeriod
      <3> QED BY <2>4, <1>t, <3>1 DEF CheckGracePeriod, Blank
    <2>5. CASE CaptureMethods(m)
      <3>1. mon[m].phase = "monitoring" /\ UNCHANGED <<rule, s3>>
        BY <2>5 DEF CaptureMethods, ControlInv, PhasesAgree
      <3> QED BY <2>5, <1>t, <3>1, CaptureEffect
    <2>6. CASE InspectBeforeRemoval(m)
      <3>1. mon[m].phase = "monitoring"
        BY <2>6 DEF InspectBeforeRemoval, ControlInv, PhasesAgree
      <3> QED BY <2>6, <1>t, <3>1, GoToEffect, GiveUpEffect DEF InspectBeforeRemoval
    <2>7. CASE RemoveRestriction(m)
      <3>1. /\ mon[m].pc = "remove" /\ rule' = NoRestriction /\ s3' = s3
        BY <2>7 DEF RemoveRestriction
      <3>2. /\ mon'[m].pc = "save"
            /\ mon'[m].original_http_methods = mon[m].original_http_methods
            /\ \A n \in Monitors \ {m} : mon'[n] = mon[n]
        BY <2>7, RemovalEffect
      <3> QED BY <1>t, <3>1, <3>2
    <2>8. CASE SaveState(m)
      <3>1. /\ mon[m].original_http_methods = ConfiguredMethods
            /\ \/ s3' = s3
               \/ s3' = [rule_arn |-> "this", age |-> mon[m].since,
                         methods |-> mon[m].original_http_methods]
        BY <2>8 DEF SaveState
      <3> QED BY <2>8, <1>t, <3>1, GoToEffect DEF SaveState
    <2>9. CASE InspectBeforeRestore(m)
      BY <2>9, <1>t, GoToEffect DEF InspectBeforeRestore
    <2>10. CASE RestoreRestriction(m)
      <3>1. /\ mon[m].pc = "restore" /\ rule' = ConfiguredMethods /\ s3' = s3
        BY <2>10 DEF RestoreRestriction
      <3>2. /\ mon'[m].pc = "forget"
            /\ mon'[m].phase = mon[m].phase
            /\ mon'[m].original_http_methods = mon[m].original_http_methods
            /\ \A n \in Monitors \ {m} : mon'[n] = mon[n]
        BY <2>10, GoToEffect DEF RestoreRestriction
      <3>3. \A n \in Monitors \ {m} : mon'[n].pc = "stopped" /\ mon'[n].phase = "monitoring"
        BY <1>s, <1>p, <3>1, <3>2
      <3> QED BY <1>t, <3>1, <3>2, <3>3
    <2>11. CASE ForgetAndRest(m)
      <3>1. /\ mon'[m] = [Blank("loop") EXCEPT !.phase = "grace_period"]
            /\ \A n \in Monitors \ {m} : mon'[n] = mon[n]
        BY <2>11, UpdateEffect DEF ForgetAndRest
      <3>2. s3' = NoRecord \/ s3' = s3
        BY <2>11 DEF ForgetAndRest
      <3> QED BY <2>11, <1>t, <3>1, <3>2 DEF ForgetAndRest, Blank
    <2> QED
      BY <1>3, <2>1, <2>2, <2>3, <2>4, <2>5, <2>6, <2>7, <2>8, <2>9, <2>10,
         <2>11 DEF Progress
  <1>4. ASSUME NEW m \in Monitors, Kill(m) PROVE Faithful'
    <2>1. mon'[m] = Blank("stopped") /\ \A n \in Monitors \ {m} : mon'[n] = mon[n]
      BY <1>4, UpdateEffect DEF Kill
    <2> QED BY <1>4, <1>t, <2>1 DEF Kill, Blank
  <1>5. CASE Tick
    <2>1. \A m \in Monitors :
            /\ mon'[m].pc = mon[m].pc
            /\ mon'[m].phase = mon[m].phase
            /\ mon'[m].original_http_methods = mon[m].original_http_methods
      BY <1>5 DEF Tick, TypeOK, MonitorState
    <2>2. OwnRecord' => OwnRecord /\ s3'.methods = s3.methods
      BY <1>5 DEF Tick, TypeOK, Records
    <2> QED BY <1>5, <1>t, <2>1, <2>2 DEF Tick
  <1>6. CASE ElbChanges \/ S3Changes \/ UNCHANGED vars
    BY <1>6, <1>t DEF ElbChanges, S3Changes, vars
  <1> QED
    BY <1>1, <1>2, <1>3, <1>4, <1>5, <1>6 DEF Next

\* While AWS answers, a single process never leaves another condition than the
\* configured one, through any number of activations, kills and lost records.
THEOREM OriginalsRestored == Spec => []OriginalMethodsComeBack
  <1>1. Init => (Alone /\ ~env.elbFaults => Faithful)
    BY MethodsAssumption DEF Init, Faithful, OwnRecord, Blank
  <1>2. TypeOK /\ ControlInv /\ (Alone /\ ~env.elbFaults => Faithful) /\ [Next]_vars
          => (Alone /\ ~env.elbFaults => Faithful)'
    BY FaithfulPreserved, EnvStays DEF Alone
  <1>3. (Alone /\ ~env.elbFaults => Faithful) => OriginalMethodsComeBack
    BY DEF Faithful, OriginalMethodsComeBack
  <1> QED
    BY <1>1, <1>2, <1>3, TypeCorrect, PTL DEF Spec

-------------------------------------------------------------------------------
(* The lease: nothing that remembers when the rule was opened is older     *)
(* than the opening.                                                       *)

InTime ==
  rule = NoRestriction =>
    /\ OwnRecord => s3.age <= ruleAge
    /\ \A m \in Monitors :
         /\ mon[m].phase = "activated" => mon[m].since <= ruleAge
         /\ mon[m].pc \in {"reinspect", "restore"} => ruleAge = ActivationDuration

\* A process that polls or removes left no old record behind, which a later
\* start could take for that of its own removal.
NothingStale ==
  \A m \in Monitors :
    \/ mon[m].pc = "save"
    \/ mon[m].pc \in {"loop", "capture", "inspect", "remove"}
         /\ mon[m].phase # "activated"
    => ~OwnRecord

LeaseInv == InTime /\ NothingStale

\* What a tick does to ages.
LEMMA OlderOrder ==
  \A a, b \in Ages : /\ a <= b => Older(a) <= Older(b)
                     /\ b = ActivationDuration => Older(b) = ActivationDuration
                     /\ a < ActivationDuration => Older(a) = a + 1
  BY TimingAssumption DEF Older, Ages

LEMMA LeasePreserved ==
  ASSUME Alone, Durable, TypeOK, ControlInv, RestartInv, LeaseInv, [Next]_vars
  PROVE  LeaseInv'
  <1> USE TimingAssumption, MethodsAssumption
      DEF LeaseInv, InTime, NothingStale, OwnRecord
  <1>t. /\ \A m \in Monitors : mon[m] \in MonitorState /\ mon[m].since \in Ages
        /\ ruleAge \in Ages
    BY DEF TypeOK, MonitorState
  <1>a. \A a \in Ages : 0 <= a /\ a <= ActivationDuration
                        /\ (ActivationDuration <= a => a = ActivationDuration)
    BY DEF Ages
  <1>s. \A m, n \in Monitors :
          mon[m].pc # "stopped" /\ mon[n].pc # "stopped" => m = n
    BY SingleProcess
  <1>p. \A n \in Monitors : mon[n].pc = "stopped" => mon[n].phase = "monitoring"
    BY DEF ControlInv, PhasesAgree
  <1>1. ASSUME NEW m \in Monitors, Start(m) PROVE LeaseInv'
    <2>1. mon'[m] = Blank("load") /\ \A n \in Monitors \ {m} : mon'[n] = mon[n]
      BY <1>1, UpdateEffect DEF Start
    <2> QED BY <1>1, <2>1 DEF Start, Blank
  <1>2. ASSUME NEW m \in Monitors, CheckWebsite(m) PROVE LeaseInv'
    <2>1. UNCHANGED ruleAge
      BY <1>2 DEF CheckWebsite, SiteUp, SiteDown
    <2> QED BY <1>2, <2>1, CheckWebsiteEffect
  <1>3. ASSUME NEW m \in Monitors, Progress(m) PROVE LeaseInv'
    <2>1. CASE InitializeWithoutRecord(m)
      <3>1. ~OwnRecord /\ mon[m].phase = "monitoring"
        BY <2>1 DEF InitializeWithoutRecord, NothingLoaded, Durable, RestartInv,
                    ControlInv, PhasesAgree
      <3> QED BY <2>1, <3>1, GoToEffect DEF InitializeWithoutRecord
    <2>2. CASE InitializeFromRecord(m)
      <3>1. UNCHANGED <<rule, ruleAge, s3>> /\ mon[m].phase = "monitoring"
        BY <2>2 DEF InitializeFromRecord, ControlInv, PhasesAgree
      <3>2. rule = NoRestriction => s3.age <= ruleAge
        BY <2>2, FromRecordEffect
      <3>3. rule = NoRestriction /\ s3.age = ActivationDuration =>
              ruleAge = ActivationDuration
        BY <3>2, <1>t, <1>a
      <3> QED BY <2>2, <3>1, <3>2, <3>3, FromRecordEffect
    <2>3. CASE CheckActivationTimeout(m)
      <3>1. rule = NoRestriction => ruleAge = ActivationDuration
        BY <2>3, <1>t, <1>a DEF CheckActivationTimeout
      <3> QED BY <2>3, <3>1, GoToEffect DEF CheckActivationTimeout
    <2>4. CASE CheckGracePeriod(m)
      <3>1. /\ mon'[m] = Blank("loop")
            /\ \A n \in Monitors \ {m} : mon'[n] = mon[n]
        BY <2>4, UpdateEffect DEF CheckGracePeriod
      <3> QED BY <2>4, <3>1 DEF CheckGracePeriod, Blank
    <2>5. CASE CaptureMethods(m)
      <3>1. mon[m].phase = "monitoring" /\ UNCHANGED <<rule, ruleAge, s3>>
        BY <2>5 DEF CaptureMethods, ControlInv, PhasesAgree
      <3>2. mon[m].pc = "capture"
        BY <2>5 DEF CaptureMethods
      <3> QED BY <2>5, <3>1, <3>2, CaptureEffect
    <2>6. CASE InspectBeforeRemoval(m)
      <3>1. /\ mon[m].pc = "inspect" /\ mon[m].phase = "monitoring"
            /\ UNCHANGED <<rule, ruleAge, s3>>
        BY <2>6 DEF InspectBeforeRemoval, ControlInv, PhasesAgree
      <3>2. /\ mon'[m].pc \in {"remove", "loop"} /\ mon'[m].phase = mon[m].phase
            /\ \A n \in Monitors \ {m} : mon'[n] = mon[n]
        BY <2>6, GoToEffect, GiveUpEffect DEF InspectBeforeRemoval
      <3> QED BY <3>1, <3>2
    <2>7. CASE RemoveRestriction(m)
      <3>1. /\ mon[m].pc = "remove" /\ mon[m].phase = "monitoring" /\ s3' = s3
            /\ rule # NoRestriction /\ ~OwnRecord
        BY <2>7 DEF RemoveRestriction, RestartInv, KnowsRestricted, ControlInv,
                    PhasesAgree
      <3>2. CASE elbUp
        <4>1. /\ mon'[m].pc = "save" /\ mon'[m].since = 0
              /\ \A n \in Monitors \ {m} : mon'[n] = mon[n]
          BY <2>7, <3>2, RemovalEffect
        <4>2. \A n \in Monitors \ {m} : mon'[n].pc = "stopped" /\ mon'[n].phase = "monitoring"
          BY <1>s, <1>p, <3>1, <4>1
        <4>3. ruleAge' = 0
          BY <2>7, <3>1, <3>2 DEF RemoveRestriction
        <4> QED BY <3>1, <4>1, <4>2, <4>3
      <3>3. CASE ~elbUp
        BY <2>7, <3>1, <3>3, GiveUpEffect DEF RemoveRestriction
      <3> QED BY <3>2, <3>3
    <2>8. CASE SaveState(m)
      <3>1. /\ mon[m].pc = "save" /\ mon[m].phase = "activated"
            /\ UNCHANGED <<rule, ruleAge>>
            /\ s3' = [rule_arn |-> "this", age |-> mon[m].since,
                      methods |-> mon[m].original_http_methods]
        BY <2>8 DEF SaveState, ControlInv, PhasesAgree, RestartInv, Durable
      <3>2. /\ mon'[m].pc = "loop" /\ mon'[m].phase = "activated"
            /\ mon'[m].since = mon[m].since
            /\ \A n \in Monitors \ {m} : mon'[n] = mon[n]
        BY <2>8, <3>1, GoToEffect DEF SaveState
      <3>3. \A n \in Monitors \ {m} : mon'[n].pc = "stopped" /\ mon'[n].phase = "monitoring"
        BY <1>s, <1>p, <3>1, <3>2
      <3> QED BY <3>1, <3>2, <3>3
    <2>9. CASE InspectBeforeRestore(m)
      <3>1. mon[m].pc = "reinspect" /\ UNCHANGED <<rule, ruleAge, s3>>
        BY <2>9 DEF InspectBeforeRestore
      <3>2. CASE ~elbUp
        <4>1. /\ mon'[m].pc = "loop" /\ mon'[m].phase = "activated"
              /\ mon'[m].since = ActivationDuration
              /\ \A n \in Monitors \ {m} : mon'[n] = mon[n]
          BY <2>9, <3>2, RestoreFailedEffect DEF InspectBeforeRestore
        <4> QED BY <3>1, <4>1, <1>a, <1>t
      <3>3. CASE elbUp
        BY <2>9, <3>1, <3>3, GoToEffect DEF InspectBeforeRestore
      <3> QED BY <3>2, <3>3
    <2>10. CASE RestoreRestriction(m)
      <3>1. /\ mon[m].pc = "restore" /\ s3' = s3
            /\ mon[m].original_http_methods # NoRestriction
        BY <2>10 DEF RestoreRestriction, ControlInv, MethodsKnown
      <3>2. CASE ~elbUp
        <4>1. /\ mon'[m].pc = "loop" /\ mon'[m].phase = "activated"
              /\ mon'[m].since = ActivationDuration
              /\ \A n \in Monitors \ {m} : mon'[n] = mon[n]
              /\ UNCHANGED <<rule, ruleAge>>
          BY <2>10, <3>2, RestoreFailedEffect DEF RestoreRestriction
        <4> QED BY <3>1, <4>1, <1>a, <1>t
      <3>3. CASE elbUp
        <4>1. /\ rule' # NoRestriction /\ mon'[m].pc = "forget"
              /\ \A n \in Monitors \ {m} : mon'[n] = mon[n]
          BY <2>10, <3>1, <3>3, GoToEffect DEF RestoreRestriction
        <4> QED BY <3>1, <4>1
      <3> QED BY <3>2, <3>3
    <2>11. CASE ForgetAndRest(m)
      <3>1. rule # NoRestriction /\ rule' = rule /\ s3' = NoRecord
        BY <2>11 DEF ForgetAndRest, RestartInv, KnowsRestricted, Durable
      <3> QED BY <3>1
    <2> QED
      BY <1>3, <2>1, <2>2, <2>3, <2>4, <2>5, <2>6, <2>7, <2>8, <2>9, <2>10,
         <2>11 DEF Progress
  <1>4. ASSUME NEW m \in Monitors, Kill(m) PROVE LeaseInv'
    <2>1. mon'[m] = Blank("stopped") /\ \A n \in Monitors \ {m} : mon'[n] = mon[n]
      BY <1>4, UpdateEffect DEF Kill
    <2> QED BY <1>4, <2>1 DEF Kill, Blank
  <1>5. CASE Tick
    <2>1. \A m \in Monitors :
            /\ mon'[m].pc = mon[m].pc
            /\ mon'[m].phase = mon[m].phase
            /\ mon[m].phase = "activated" => mon'[m].since = Older(mon[m].since)
      BY <1>5 DEF Tick, TypeOK, MonitorState
    <2>2. OwnRecord' => OwnRecord /\ s3'.age = Older(s3.age) /\ s3.age \in Ages
      BY <1>5 DEF Tick, TypeOK, Records
    <2>3. rule' = rule /\ ruleAge' = Older(ruleAge)
      BY <1>5 DEF Tick
    <2>4. NothingStale'
      BY <2>1, <2>2
    <2>5. ASSUME rule = NoRestriction, OwnRecord' PROVE s3'.age <= ruleAge'
      BY <2>2, <2>3, <2>5, <1>t, OlderOrder
    <2>6. ASSUME rule = NoRestriction, NEW m \in Monitors
          PROVE  /\ mon'[m].phase = "activated" => mon'[m].since <= ruleAge'
                 /\ mon'[m].pc \in {"reinspect", "restore"} => ruleAge' = ActivationDuration
      BY <2>1, <2>3, <2>6, <1>t, OlderOrder
    <2> QED BY <2>3, <2>4, <2>5, <2>6
  <1>6. CASE ElbChanges \/ S3Changes \/ UNCHANGED vars
    BY <1>6 DEF ElbChanges, S3Changes, vars
  <1> QED
    BY <1>1, <1>2, <1>3, <1>4, <1>5, <1>6 DEF Next

\* Which steps the load balancer sees, and what they are for the lease.
LEMMA LeaseStep ==
  ASSUME TypeOK, ControlInv, Alone /\ Durable => RestartInv /\ LeaseInv, [Next]_vars
  PROVE  [Lease!Next]_(Lease!leaseVars)
  <1> USE DEF Lease!Next, Lease!leaseVars, Lease!Engage, Lease!Release, Lease!TimePasses
  <1>e. env' = env
    BY EnvStays
  <1>0. CASE ~(Alone /\ Durable)
    BY <1>0, <1>e DEF Alone, Durable
  <1>1. CASE Alone /\ Durable
    <2>1. RestartInv /\ LeaseInv /\ Alone' /\ Durable'
      BY <1>1, <1>e DEF Alone, Durable
    <2>2. ASSUME NEW m \in Monitors, RemoveRestriction(m)
          PROVE  [Lease!Next]_(Lease!leaseVars)
      <3>1. rule # NoRestriction
        BY <2>1, <2>2 DEF RemoveRestriction, RestartInv, KnowsRestricted, ControlInv,
                          PhasesAgree
      <3> QED BY <1>1, <2>1, <2>2, <3>1 DEF RemoveRestriction
    <2>3. ASSUME NEW m \in Monitors, RestoreRestriction(m)
          PROVE  [Lease!Next]_(Lease!leaseVars)
      <3>1. /\ mon[m].original_http_methods # NoRestriction
            /\ rule = NoRestriction => ruleAge = ActivationDuration
        BY <2>1, <2>3 DEF RestoreRestriction, LeaseInv, InTime, ControlInv, MethodsKnown
      <3> QED BY <1>1, <2>1, <2>3, <3>1 DEF RestoreRestriction
    <2>4. CASE Tick
      <3>1. ruleAge \in Ages /\ ruleAge' = Older(ruleAge) /\ rule' = rule
        BY <2>4 DEF Tick, TypeOK
      <3>2. \/ ruleAge < ActivationDuration /\ ruleAge' = ruleAge + 1
            \/ ruleAge' = ruleAge
        BY <3>1 DEF Older
      <3> QED BY <1>1, <2>1, <3>1, <3>2
    <2>5. CASE UNCHANGED <<rule, ruleAge>>
      BY <1>1, <2>1, <2>5
    <2>6. \/ \E m \in Monitors : RemoveRestriction(m) \/ RestoreRestriction(m)
          \/ Tick
          \/ UNCHANGED <<rule, ruleAge>>
      BY DEF Next, vars, Start, CheckWebsite, SiteUp, SiteDown, Progress,
         InitializeWithoutRecord, InitializeFromRecord, CheckActivationTimeout,
         CheckGracePeriod, CaptureMethods, InspectBeforeRemoval, SaveState,
         InspectBeforeRestore, ForgetAndRest, Kill, ElbChanges, S3Changes
    <2> QED BY <2>2, <2>3, <2>4, <2>5, <2>6
  <1> QED BY <1>0, <1>1

\* Process, record and restarts together implement the lease: what the load
\* balancer sees of a single process on a durable bucket is an engagement that
\* lasts at least ActivationDuration, whatever the durations are.
THEOREM MonitorImplementsLease == Spec => ImplementsLease
  <1>1. Init => Lease!Init
    BY MethodsAssumption DEF Init, Lease!Init
  <1>2. Init => (Alone /\ Durable => LeaseInv)
    BY MethodsAssumption DEF Init, LeaseInv, InTime, NothingStale, Blank
  <1>3. /\ TypeOK /\ ControlInv /\ (Alone /\ Durable => RestartInv)
        /\ (Alone /\ Durable => LeaseInv) /\ [Next]_vars
        => (Alone /\ Durable => LeaseInv)'
    BY LeasePreserved, EnvStays DEF Alone, Durable
  <1>4. /\ TypeOK /\ ControlInv /\ (Alone /\ Durable => RestartInv)
        /\ (Alone /\ Durable => LeaseInv) /\ [Next]_vars
        => [Lease!Next]_(Lease!leaseVars)
    BY LeaseStep
  <1> QED
    BY <1>1, <1>2, <1>3, <1>4, TypeCorrect, RestartAlways, PTL
    DEF Spec, ImplementsLease, Lease!Spec

===============================================================================
