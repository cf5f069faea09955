---------------------------- MODULE GatewayProofs ----------------------------
(* The watchdog's restart limits and locks, and what Gateway Ops leaves    *)
(* behind, proved for every threshold, cooldown, window, budget and bound, *)
(* with deployments, kills and reboots interleaved.                        *)
EXTENDS GatewayOps, FiniteSetTheorems, TLAPS

(* The policy file knows of every request inside the window, and a run     *)
(* that is about to restart has been granted it.                           *)
Granted ==
    /\ \A a \in past : a >= RestartCooldown
    /\ Cardinality(Recent(past)) < MaxRestartsPerWindow
    /\ 0 \in policy.restarts

RateInv ==
    /\ policy \in Policies /\ past \subseteq 0 .. RestartWindow
    /\ Recent(past) \subseteq policy.restarts
    /\ wd.pc = "act" => Granted

(* Nothing was restarted yet. *)
LEMMA RateInit == ASSUME Init PROVE RateInv
BY WatchdogAssumption
DEF Init, WatchdogInit, RateInv, NewPolicy, Policies, IdleRun, Recent

(* Steps that leave the policy and the requests alone, and grant nothing. *)
Bystander ==
    /\ UNCHANGED <<policy, past>>
    /\ wd'.pc = "act" => (wd.pc = "act")

(* A step that leaves the restart record alone, and grants no restart,     *)
(* keeps the budget.                                                       *)
LEMMA RateBystander == ASSUME RateInv, Bystander PROVE RateInv'
BY DEF RateInv, Bystander, Granted, Recent

(* Workflows, deployments and reboots are such steps. *)
LEMMA OpsIsBystander ==
    ASSUME OpsStep \/ OpsKilled \/ DeployBegin \/ DeployEnv \/ Reboot
           \/ \E action \in OpsActions : OpsBegin(action)
    PROVE  Bystander
<1>1. CASE OpsStep
  BY <1>1 DEF OpsStep, OpsPause, OpsRepair, OpsConfigure, OpsRestart, OpsTwoFactor, OpsReady,
              OpsCheck, OpsArm, OpsResume, UnchangedHost, Bystander
<1>2. CASE OpsKilled \/ DeployBegin
  BY <1>2 DEF OpsKilled, DeployBegin, watchdogVars, Bystander
<1>3. CASE DeployEnv
  BY <1>3 DEF DeployEnv, Bystander
<1>4. CASE Reboot
  BY <1>4 DEF Reboot, IdleRun, Bystander
<1>5. CASE \E action \in OpsActions : OpsBegin(action)
  BY <1>5 DEF OpsBegin, IdleRun, Bystander
<1> QED
  BY <1>1, <1>2, <1>3, <1>4, <1>5

(* So are the Gateway's own steps and the rest of a watchdog run. *)
LEMMA HostIsBystander ==
    ASSUME WdStart \/ WdNotify \/ WdKilled \/ LateRestart \/ Login \/ SessionLost
           \/ Commands \/ UNCHANGED vars
    PROVE  Bystander
<1>1. CASE WdStart \/ WdNotify \/ WdKilled
  BY <1>1 DEF WdStart, WdNotify, WdKilled, IdleRun, Bystander
<1>2. CASE LateRestart \/ Login \/ SessionLost
  BY <1>2 DEF LateRestart, Login, SessionLost, Bystander
<1>3. CASE Commands
  BY <1>3 DEF Commands, CommandStart, CommandEnd, Bystander
<1>4. CASE UNCHANGED vars
  BY <1>4 DEF vars, watchdogVars, Bystander
<1> QED
  BY <1>1, <1>2, <1>3, <1>4

(* The restarts within the window are finitely many, and among those       *)
(* recorded.                                                               *)
LEMMA RecentFinite ==
    ASSUME NEW S, S \subseteq 0 .. RestartWindow
    PROVE  IsFiniteSet(Recent(S)) /\ Recent(S) \subseteq S
<1>1. IsFiniteSet(0 .. RestartWindow)
  BY FS_Interval, WatchdogAssumption
<1>2. Recent(S) \subseteq 0 .. RestartWindow /\ Recent(S) \subseteq S
  BY DEF Recent
<1> QED
  BY <1>1, <1>2, FS_Subset

(* What decide returns: the window's restarts are kept, and a restart is   *)
(* granted only within the limits, and recorded.                           *)
LEMMA JudgeKeepsRestarts ==
    ASSUME NEW p \in Policies, NEW status \in Statuses \ {"probe_error"}
    PROVE  /\ Judge(p, status).policy \in Policies /\ Judge(p, status).event \in Events
           /\ p.restarts \subseteq Judge(p, status).policy.restarts
           /\ Judge(p, status).restart =>
                /\ ~Limited(p) /\ 0 \in Judge(p, status).policy.restarts
                /\ Judge(p, status).event = "restart"
<1>1. 0 \in 0 .. RestartWindow /\ 0 \in 0 .. FailureThreshold /\ 0 \in 0 .. AlertInterval
      /\ FailureThreshold \in 0 .. FailureThreshold /\ p.failures \in 0 .. FailureThreshold
  BY WatchdogAssumption DEF Policies
<1>2. CASE status = "authenticated"
  <2> DEFINE q == [p EXCEPT !.failures = 0, !.incident = FALSE]
  <2>1. Judge(p, status) = Decision(q, FALSE, IF p.incident THEN "recovered" ELSE "none")
    BY <1>2 DEF Judge
  <2>2. q \in Policies /\ q.restarts = p.restarts
    BY <1>1 DEF Policies
  <2> HIDE DEF q
  <2> QED
    BY <2>1, <2>2 DEF Decision, Events
<1>3. CASE status = "disabled"
  <2> DEFINE q == [p EXCEPT !.failures = 0, !.incident = FALSE]
  <2>1. Judge(p, status) = Decision(q, FALSE, "none")
    BY <1>3 DEF Judge
  <2>2. q \in Policies /\ q.restarts = p.restarts
    BY <1>1 DEF Policies
  <2> HIDE DEF q
  <2> QED
    BY <2>1, <2>2 DEF Decision, Events
<1>4. CASE status = "configuration_error"
  <2>1. CASE p.incident /\ Quiet(p)
    <3> DEFINE q == [p EXCEPT !.failures = 0, !.incident = TRUE, !.alert = p.alert]
    <3>1. Judge(p, status) = Decision(q, FALSE, "none")
      BY <1>4, <2>1 DEF Judge
    <3>2. q \in Policies /\ q.restarts = p.restarts
      BY <1>1 DEF Policies
    <3> HIDE DEF q
    <3> QED
      BY <3>1, <3>2 DEF Decision, Events
  <2>2. CASE ~(p.incident /\ Quiet(p))
    <3> DEFINE q == [p EXCEPT !.failures = 0, !.incident = TRUE, !.alert = 0]
    <3>1. Judge(p, status) = Decision(q, FALSE, "configuration")
      BY <1>4, <2>2 DEF Judge
    <3>2. q \in Policies /\ q.restarts = p.restarts
      BY <1>1 DEF Policies
    <3> HIDE DEF q
    <3> QED
      BY <3>1, <3>2 DEF Decision, Events
  <2> QED
    BY <2>1, <2>2
<1>5. CASE status = "unavailable" /\ p.failures + 1 < FailureThreshold
  <2> DEFINE q == [p EXCEPT !.failures = p.failures + 1]
  <2>0. ~(p.failures + 1 >= FailureThreshold)
    BY <1>1, <1>5, WatchdogAssumption
  <2>1. Judge(p, status) = Decision(q, FALSE, "none")
    BY <1>5, <2>0, Zenon DEF Judge
  <2>2. p.failures + 1 \in 0 .. FailureThreshold
    BY <1>1, <1>5, WatchdogAssumption
  <2>3. q \in Policies /\ q.restarts = p.restarts
    BY <2>2 DEF Policies
  <2> HIDE DEF q
  <2> QED
    BY <2>1, <2>3 DEF Decision, Events
<1>6. CASE status = "unavailable" /\ p.failures + 1 >= FailureThreshold /\ Limited(p)
  <2>1. ~(p.failures + 1 < FailureThreshold)
    BY <1>1, <1>6, WatchdogAssumption
  <2>2. Judge(p, status) = Decision(Waiting(p), FALSE, IF Quiet(p) THEN "none" ELSE "waiting")
    <3>1. CASE Quiet(p)
      BY <1>6, <2>1, <3>1, Zenon DEF Judge
    <3>2. CASE ~Quiet(p)
      BY <1>6, <2>1, <3>2, Zenon DEF Judge
    <3> QED
      BY <3>1, <3>2
  <2>3. Waiting(p) \in Policies /\ Waiting(p).restarts = p.restarts
    <3>1. CASE Quiet(p)
      BY <1>1, <3>1 DEF Waiting, Policies
    <3>2. CASE ~Quiet(p)
      BY <1>1, <3>2 DEF Waiting, Policies
    <3> QED
      BY <3>1, <3>2
  <2> QED
    BY <2>2, <2>3 DEF Decision, Events
<1>7. CASE status = "unavailable" /\ p.failures + 1 >= FailureThreshold /\ ~Limited(p)
  <2> DEFINE q == [p EXCEPT !.failures = 0, !.incident = TRUE, !.alert = 0,
                            !.restarts = @ \cup {0}]
  <2>1. ~(p.failures + 1 < FailureThreshold)
    BY <1>1, <1>7, WatchdogAssumption
  <2>2. Judge(p, status) = Decision(q, TRUE, "restart")
    BY <1>7, <2>1 DEF Judge
  <2>3. q \in Policies /\ q.restarts = p.restarts \cup {0}
    BY <1>1 DEF Policies
  <2> HIDE DEF q
  <2> QED
    BY <1>7, <2>2, <2>3 DEF Decision, Events
<1>8. p.failures + 1 < FailureThreshold \/ p.failures + 1 >= FailureThreshold
  BY <1>1, WatchdogAssumption
<1> QED
  BY <1>2, <1>3, <1>4, <1>5, <1>6, <1>7, <1>8 DEF Statuses

(* decide_action keeps the restarts of the window, and grants one only     *)
(* within the limits, already recorded.                                    *)
LEMMA DecideKeepsRestarts ==
    ASSUME RateInv, NEW status \in Statuses
    PROVE  /\ Decide(status).policy \in Policies /\ Decide(status).event \in Events
           /\ Recent(policy.restarts) \subseteq Decide(status).policy.restarts
           /\ Decide(status).restart =>
                /\ ~Limited(Current) /\ 0 \in Decide(status).policy.restarts
                /\ Decide(status).event = "restart"
<1>1. Recent(policy.restarts) \subseteq policy.restarts
  BY DEF Recent
<1>2. Current \in Policies /\ Current.restarts = Recent(policy.restarts)
  BY <1>1 DEF RateInv, Policies, Current
<1>3. CASE status = "probe_error"
  <2>1. 0 \in 0 .. FailureThreshold
    BY WatchdogAssumption
  <2> QED
    BY <1>1, <1>3, <2>1 DEF Decide, Decision, RateInv, Policies, Events
<1>4. CASE status # "probe_error"
  BY <1>2, <1>4, JudgeKeepsRestarts DEF Decide
<1> QED
  BY <1>3, <1>4

(* A probe answers with a status. *)
LEMMA ProbeIsStatus == ProbeStatus \in Statuses /\ FaultyStatuses \subseteq Statuses
BY DEF ProbeStatus, FaultyStatuses, Statuses

(* A restart is granted against all restarts of the window. *)
LEMMA RateDecide == ASSUME RateInv, WdDecide PROVE RateInv'
<1>1. CASE wd' = IdleRun /\ UNCHANGED policy
  BY <1>1, RateBystander DEF WdDecide, Bystander, IdleRun
<1>2. ASSUME NEW status \in Statuses, DecideOn(status) PROVE RateInv'
  <2>1. past' = past /\ policy' = Decide(status).policy
    BY <1>2 DEF WdDecide, DecideOn, Saved
  <2>2. Recent(past) \subseteq Recent(policy.restarts)
    BY DEF RateInv, Recent
  <2>3. policy' \in Policies /\ Recent(past) \subseteq policy'.restarts
    BY <2>1, <2>2, DecideKeepsRestarts
  <2>4. ASSUME wd'.pc = "act" PROVE Granted'
    <3>1. Decide(status).restart
      BY <1>2, <2>4 DEF DecideOn
    <3>2. ~Limited(Current) /\ 0 \in policy'.restarts
      BY <2>1, <3>1, DecideKeepsRestarts
    <3>3. Current.restarts = Recent(policy.restarts)
      BY DEF RateInv, Policies, Current
    <3>4. \A a \in Recent(past) : a >= RestartCooldown
      <4>1. \A a \in Recent(policy.restarts) : ~(a < RestartCooldown)
        BY <3>2, <3>3 DEF Limited
      <4>2. \A a \in Recent(past) : a \in 0 .. RestartWindow
        BY DEF RateInv, Recent
      <4> QED
        BY <2>2, <4>1, <4>2, WatchdogAssumption
    <3>5. \A a \in past : a >= RestartCooldown
      BY <3>4, WatchdogAssumption DEF RateInv, Recent
    <3>6. Cardinality(Recent(past)) < MaxRestartsPerWindow
      <4>1. policy.restarts \subseteq 0 .. RestartWindow
        BY DEF RateInv, Policies
      <4>2. IsFiniteSet(Recent(policy.restarts)) /\ IsFiniteSet(Recent(past))
        BY <4>1, RecentFinite DEF RateInv
      <4>3. Cardinality(Recent(past)) <= Cardinality(Recent(policy.restarts))
        BY <2>2, <4>2, FS_Subset
      <4>4. ~(Cardinality(Recent(policy.restarts)) >= MaxRestartsPerWindow)
        BY <3>2, <3>3 DEF Limited
      <4>5. Cardinality(Recent(past)) \in Nat /\ Cardinality(Recent(policy.restarts)) \in Nat
        BY <4>2, FS_CardinalityType
      <4> QED
        BY <4>3, <4>4, <4>5, WatchdogAssumption
    <3> QED
      BY <2>1, <3>2, <3>5, <3>6 DEF Granted, Recent
  <2> QED
    BY <2>1, <2>3, <2>4 DEF RateInv, Recent
<1> QED
  BY <1>1, <1>2, ProbeIsStatus DEF WdDecide

(* The restart that happens was recorded when it was granted. *)
LEMMA RateRestart == ASSUME RateInv, WdRestart PROVE RateInv'
<1>1. past' = past \cup {0} /\ policy' = policy
  BY DEF WdRestart
<1>5. wd'.pc # "act"
  BY DEF WdRestart
<1>2. 0 \in policy.restarts
  BY DEF WdRestart, RateInv, Granted
<1>3. Recent(past') \subseteq policy'.restarts
  BY <1>1, <1>2 DEF RateInv, Recent
<1>4. past' \subseteq 0 .. RestartWindow
  BY <1>1, WatchdogAssumption DEF RateInv
<1> QED
  BY <1>1, <1>3, <1>4, <1>5 DEF RateInv

(* Time ages what was recorded and what happened alike. *)
LEMMA RateTick == ASSUME RateInv, WatchdogTick PROVE RateInv'
<1> DEFINE Aged(S) == {Older(a, RestartWindow) : a \in S}
<1>1. past' = Aged(past) /\ wd'.pc = "idle"
  BY DEF WatchdogTick
<1>2. \A a \in 0 .. RestartWindow : Older(a, RestartWindow) \in 0 .. RestartWindow
  BY WatchdogAssumption DEF Older
<1>3. policy.restarts \subseteq 0 .. RestartWindow /\ past \subseteq 0 .. RestartWindow
  BY DEF RateInv, Policies
<1>4. Older(policy.alert, AlertInterval) \in 0 .. AlertInterval
  <2>1. policy.alert \in 0 .. AlertInterval
    BY DEF RateInv, Policies
  <2> QED
    BY <2>1, WatchdogAssumption DEF Older
<1>5. /\ policy' = [policy EXCEPT !.alert = Older(policy.alert, AlertInterval),
                                  !.restarts = Aged(policy.restarts)]
  BY DEF WatchdogTick
<1>6. Aged(policy.restarts) \subseteq 0 .. RestartWindow /\ past' \subseteq 0 .. RestartWindow
  BY <1>1, <1>2, <1>3
<1>7. policy' \in Policies /\ policy'.restarts = Aged(policy.restarts)
  BY <1>4, <1>5, <1>6 DEF RateInv, Policies
<1>8. Recent(past') \subseteq policy'.restarts
  <2> SUFFICES ASSUME NEW b \in Recent(past') PROVE b \in Aged(policy.restarts)
    BY <1>7
  <2>1. PICK a \in past : b = Older(a, RestartWindow)
    BY <1>1 DEF Recent
  <2>2. b < RestartWindow
    BY DEF Recent
  <2>3. a < RestartWindow
    BY <1>3, <2>1, <2>2, WatchdogAssumption DEF Older
  <2>4. a \in policy.restarts
    BY <2>3 DEF RateInv, Recent
  <2> QED
    BY <2>1, <2>4
<1> QED
  BY <1>1, <1>6, <1>7, <1>8 DEF RateInv

(* Every step keeps the restart budget. *)
LEMMA RateStep == ASSUME RateInv, [Next]_vars PROVE RateInv'
<1>1. CASE Watchdog
  BY <1>1, RateDecide, RateRestart, RateBystander, HostIsBystander
  DEF Watchdog, Quietly, Forgetting
<1>2. CASE Quietly(WatchdogTick)
  BY <1>2, RateTick DEF Quietly
<1>3. CASE \/ Commands \/ Quietly(WdStart) \/ Quietly(WdKilled) \/ Forgetting(LateRestart)
           \/ Quietly(Login) \/ Quietly(SessionLost) \/ UNCHANGED vars
  BY <1>3, RateBystander, HostIsBystander DEF Quietly, Forgetting
<1>4. CASE OpsStep \/ OpsKilled \/ DeployBegin \/ DeployEnv \/ Reboot
           \/ \E action \in OpsActions : OpsBegin(action)
  BY <1>4, RateBystander, OpsIsBystander
<1> QED
  BY <1>1, <1>2, <1>3, <1>4 DEF Next

(* docs/ibkr-gateway-operations.md: "at least 15 minutes between attempts  *)
(* and at most two per hour".  decide records a restart before tick        *)
(* performs it, so the limits hold for every threshold, cooldown, window   *)
(* and budget and however runs are killed.                                 *)
THEOREM WatchdogRateLimit == Spec => RestartsRateLimited
<1>1. Init => RateInv
  BY RateInit
<1>2. RateInv /\ [Next]_vars => RateInv'
  BY RateStep
<1>3. RateInv =>
        [(wd.pc = "act" /\ wd'.pc = "notify")
            => /\ \A a \in past : a >= RestartCooldown
               /\ Cardinality(Recent(past)) < MaxRestartsPerWindow]_vars
  BY DEF RateInv, Granted
<1> QED
  BY <1>1, <1>2, <1>3, PTL DEF Spec, RestartsRateLimited

-----------------------------------------------------------------------------
(* Locks. *)

(* docs/ibkr-gateway-operations.md: the watchdog "skips while a supported  *)
(* trading or maintenance command is running".  tick holds the command     *)
(* lock and the runtime lock from its probe to its notification.           *)
THEOREM CommandsUndisturbed == Spec => []WatchdogExcludesCommands
<1>1. Init => WatchdogExcludesCommands
  BY DEF Init, WatchdogInit, WatchdogExcludesCommands
<1>2. WatchdogExcludesCommands /\ [Next]_vars => WatchdogExcludesCommands'
  <2> SUFFICES ASSUME WatchdogExcludesCommands, [Next]_vars PROVE WatchdogExcludesCommands'
    OBVIOUS
  <2> USE DEF WatchdogExcludesCommands
  <2>1. CASE Watchdog \/ Quietly(WdKilled)
    BY <2>1 DEF Watchdog, Quietly, Forgetting, WdDecide, WdRestart, WdNotify, WdKilled
  <2>2. CASE Quietly(WdStart)
    BY <2>2 DEF Quietly, WdStart, RuntimeLockFree
  <2>3. CASE Commands
    BY <2>3 DEF Commands, CommandStart, CommandEnd, RuntimeLockFree
  <2>4. CASE Forgetting(LateRestart) \/ Quietly(Login) \/ Quietly(SessionLost) \/ Quietly(WatchdogTick)
    BY <2>4 DEF Forgetting, Quietly, LateRestart, Login, SessionLost, WatchdogTick
  <2>5. CASE OpsStep
    BY <2>5 DEF OpsStep, OpsPause, OpsRepair, OpsConfigure, OpsRestart, OpsTwoFactor, OpsReady,
                OpsCheck, OpsArm, OpsResume, UnchangedHost
  <2>6. CASE OpsKilled \/ DeployBegin \/ DeployEnv \/ UNCHANGED vars
    BY <2>6 DEF OpsKilled, DeployBegin, DeployEnv, vars, watchdogVars
  <2>7. CASE Reboot
    BY <2>7 DEF Reboot
  <2>8. CASE \E action \in OpsActions : OpsBegin(action)
    BY <2>8 DEF OpsBegin, IdleRun
  <2> QED
    BY <2>1, <2>2, <2>3, <2>4, <2>5, <2>6, <2>7, <2>8 DEF Next
<1> QED
  BY <1>1, <1>2, PTL DEF Spec

-----------------------------------------------------------------------------
(* Gateway Ops. *)

(* A workflow run has the Gateway to itself: the watchdog is off. *)
Alone == ops.pc # "idle" => (~timer /\ wd.pc = "idle")

Configuring == ops.action \in BrokerModes

(* From the rewritten config.ini to the arming: the mode the run is for is *)
(* the mode in the file, then the mode of the running Gateway, and no      *)
(* restart is left over that could end it.                                 *)
Mode ==
    /\ ops \in [pc : OpsPC, action : OpsActions, restarts : Nat, status : Outcomes]
    /\ (ops.pc = "restart" /\ Configuring) => ibcMode = ops.action
    /\ ops.pc \in {"2fa", "check", "arm"} => Configuring
    /\ ops.pc = "ready" => ops.action # "restart"
    /\ (ops.pc \in {"2fa", "ready", "check", "arm"} /\ Configuring)
         => (ibcMode = ops.action /\ gwMode = ops.action /\ ~late)
    /\ ops.pc = "arm" => verified = gwMode

(* Only a run that has seen the service up ends well. *)
Outcome ==
    /\ svc \in {"active", "inactive"}
    /\ ops.pc \notin {"idle", "resume"} => ops.status = "failed"
    /\ ops.pc = "arm" => svc = "active"
    /\ (ops.pc = "resume" /\ ops.status = "ok") => svc = "active"
    /\ NothingLeftDown

OpsInv == Alone /\ Mode /\ Outcome

(* No workflow runs yet. *)
LEMMA OpsInit == ASSUME Init PROVE OpsInv
BY DEF Init, WatchdogInit, OpsInv, Alone, Mode, Outcome, NothingLeftDown, Configuring,
       OpsPC, OpsActions, Outcomes, IdleRun

(* Workflow steps that leave the Gateway as it is. *)
LEMMA OpsQuiet ==
    ASSUME OpsInv, OpsPause \/ OpsConfigure \/ OpsTwoFactor \/ OpsCheck \/ OpsArm
    PROVE  OpsInv'
<1> USE DEF OpsInv, Alone, Mode, Outcome, NothingLeftDown, Configuring, OpsPC, OpsActions, Outcomes,
            Finish, Goto, UnchangedHost, UnchangedGateway
<1>1. CASE OpsPause
  BY <1>1 DEF OpsPause
<1>2. CASE OpsConfigure
  BY <1>2 DEF OpsConfigure, ConfigureIbc
<1>3. CASE OpsTwoFactor
  BY <1>3 DEF OpsTwoFactor, BrokerModes
<1>4. CASE OpsCheck
  BY <1>4 DEF OpsCheck
<1>5. CASE OpsArm
  BY <1>5 DEF OpsArm
<1> QED
  BY <1>1, <1>2, <1>3, <1>4, <1>5

(* Workflow steps that may restart it, and the end of the run. *)
LEMMA OpsActive ==
    ASSUME OpsInv, OpsRepair \/ OpsRestart \/ OpsReady \/ OpsResume
    PROVE  OpsInv'
<1> USE DEF OpsInv, Alone, Mode, Outcome, NothingLeftDown, Configuring, OpsPC, OpsActions, Outcomes,
            Finish, Goto, UnchangedHost, UnchangedGateway, StartedAgain, Restarted, Launched
<1>1. CASE OpsRepair
  BY <1>1 DEF OpsRepair, RepairStopped, AfterRepair
<1>2. CASE OpsRestart
  BY <1>2 DEF OpsRestart, LeftDown, NextAfterRestart, BrokerModes
<1>3. CASE OpsReady
  <2>0. ops.pc = "ready" /\ UNCHANGED ibcMode /\ UnchangedHost
    BY <1>3 DEF OpsReady
  <2>1. CASE svc = "active" /\ ops.action = "verify" /\ Finish(TRUE) /\ UnchangedGateway
    BY <2>0, <2>1
  <2>2. CASE ops.action # "verify" /\ Goto("check") /\ UnchangedGateway
    BY <2>0, <2>2
  <2>3. CASE /\ ops' = [ops EXCEPT !.restarts = @ + 1]
             /\ StartedAgain \/ UnchangedGateway \/ LeftDown
    <3>1. /\ UNCHANGED <<ops.pc, ops.action, ops.status>>
          /\ ops' \in [pc : OpsPC, action : OpsActions, restarts : Nat, status : Outcomes]
      BY <2>3
    <3>2. CASE StartedAgain
      BY <2>0, <3>1, <3>2
    <3>3. CASE UnchangedGateway
      BY <2>0, <3>1, <3>3
    <3>4. CASE LeftDown
      BY <2>0, <3>1, <3>4 DEF LeftDown
    <3> QED
      BY <2>3, <3>2, <3>3, <3>4
  <2>4. CASE Finish(FALSE) /\ UnchangedGateway
    BY <2>0, <2>4
  <2> QED
    BY <1>3, <2>1, <2>2, <2>3, <2>4 DEF OpsReady
<1>4. CASE OpsResume
  BY <1>4 DEF OpsResume, gateway
<1> QED
  BY <1>1, <1>2, <1>3, <1>4

(* Starts, kills, deployments and reboots keep the workflow invariant. *)
LEMMA OpsOutside ==
    ASSUME OpsInv,
           OpsKilled \/ DeployBegin \/ DeployEnv \/ Reboot \/ UNCHANGED vars
           \/ \E action \in OpsActions : OpsBegin(action)
    PROVE  OpsInv'
<1> USE DEF OpsInv, Alone, Mode, Outcome, NothingLeftDown, Configuring, OpsPC, OpsActions, Outcomes
<1>1. CASE OpsKilled
  BY <1>1 DEF OpsKilled, watchdogVars, gateway
<1>2. CASE DeployBegin \/ DeployEnv
  BY <1>2 DEF DeployBegin, DeployEnv, gateway
<1>3. CASE Reboot
  BY <1>3 DEF Reboot, StartedAgain, Restarted, Launched, IdleRun
<1>4. CASE UNCHANGED vars
  BY <1>4 DEF vars, watchdogVars, opsVars, gateway
<1>5. CASE \E action \in OpsActions : OpsBegin(action)
  <2> PICK action \in OpsActions : OpsBegin(action)
    BY <1>5
  <2>1. CASE ops'.pc = ops.pc
    <3>0. ops.pc = "idle" /\ svc' = svc
      BY DEF OpsBegin, gateway
    <3>1. ops' = [ops EXCEPT !.status = "aborted"]
      <4>1. (IF action \in BrokerModes THEN "pause" ELSE "repair") # "idle"
        OBVIOUS
      <4> QED
        BY <2>1, <3>0, <4>1 DEF OpsBegin
    <3>2. /\ ops'.pc = "idle" /\ ops'.status = "aborted"
          /\ ops' \in [pc : OpsPC, action : OpsActions, restarts : Nat, status : Outcomes]
      BY <3>0, <3>1
    <3> QED
      BY <3>0, <3>2
  <2>2. CASE ops'.pc # ops.pc
    <3>1. /\ ops' = [pc |-> IF action \in BrokerModes THEN "pause" ELSE "repair",
                     action |-> action, restarts |-> 0, status |-> "failed"]
          /\ timer' = FALSE /\ wd' = IdleRun
      BY <2>2 DEF OpsBegin
    <3> QED
      BY <3>1 DEF OpsBegin, gateway, IdleRun
  <2> QED
    BY <2>1, <2>2
<1> QED
  BY <1>1, <1>2, <1>3, <1>4, <1>5

(* The watchdog, the commands, the Gateway and the clock. *)
LEMMA OpsBeside ==
    ASSUME OpsInv, RateInv,
           \/ Commands \/ Quietly(WdStart) \/ Watchdog \/ Quietly(WdKilled)
           \/ Forgetting(LateRestart) \/ Quietly(Login) \/ Quietly(SessionLost)
           \/ Quietly(WatchdogTick)
    PROVE  OpsInv'
<1> USE DEF OpsInv, Alone, Mode, Outcome, NothingLeftDown, Configuring, OpsPC, OpsActions, Outcomes,
            Quietly, Forgetting, opsVars
<1>1. CASE Commands
  BY <1>1 DEF Commands, CommandStart, CommandEnd, gateway
<1>2. CASE Quietly(WdStart)
  BY <1>2 DEF WdStart, gateway, IdleRun
<1>3. CASE Quietly(WdDecide)
  <2>1. CASE wd' = IdleRun
    BY <1>3, <2>1 DEF WdDecide, gateway, IdleRun
  <2>2. ASSUME NEW status \in Statuses, DecideOn(status) PROVE OpsInv'
    <3>1. wd'.event = "restart_failed" => wd'.pc = "notify"
      BY <2>2, DecideKeepsRestarts DEF DecideOn
    <3> QED
      BY <1>3, <3>1 DEF WdDecide, gateway
  <2> QED
    BY <1>3, <2>1, <2>2, ProbeIsStatus DEF WdDecide
<1>4. CASE Forgetting(WdRestart)
  BY <1>4 DEF WdRestart, Restarted, Launched
<1>5. CASE Quietly(WdNotify) \/ Quietly(WdKilled)
  BY <1>5 DEF WdNotify, WdKilled, gateway, IdleRun
<1>6. CASE Forgetting(LateRestart)
  BY <1>6 DEF LateRestart, Restarted, Launched
<1>7. CASE Quietly(Login) \/ Quietly(SessionLost) \/ Quietly(WatchdogTick)
  BY <1>7 DEF Login, SessionLost, Launched, WatchdogTick
<1> QED
  BY <1>1, <1>2, <1>3, <1>4, <1>5, <1>6, <1>7 DEF Watchdog

(* Every step keeps the workflow invariant. *)
LEMMA OpsInductive == ASSUME OpsInv, RateInv, [Next]_vars PROVE OpsInv'
BY OpsQuiet, OpsActive, OpsOutside, OpsBeside DEF Next, OpsStep

(* run_gateway_ops_workflow.py, "only successful readiness re-arms it":    *)
(* whatever a deployment, the Gateway or a lost answer does in between,    *)
(* the schedule comes back only for the mode that was verified and that    *)
(* .env names at that moment.                                              *)
THEOREM ScheduleArmedOnLogin == Spec => ArmedOnVerifiedLogin
<1>1. Init => RateInv /\ OpsInv
  BY RateInit, OpsInit
<1>2. RateInv /\ OpsInv /\ [Next]_vars => (RateInv /\ OpsInv)'
  BY RateStep, OpsInductive
<1>3. OpsInv /\ [Next]_vars =>
        [(crontab' /\ ~crontab /\ envMode' \in BrokerModes)
            => (verified = envMode' /\ gwMode = envMode')]_vars
  <2> SUFFICES ASSUME OpsInv, Next, crontab' # crontab, crontab', envMode' \in BrokerModes
               PROVE  verified = envMode' /\ gwMode = envMode'
    OBVIOUS
  <2>1. CASE OpsArm
    BY <2>1 DEF OpsArm, OpsInv, Mode, Configuring, UnchangedHost
  <2>2. CASE DeployEnv
    BY <2>2 DEF DeployEnv, BrokerModes
  <2>3. CASE OpsPause
    BY <2>3 DEF OpsPause
  <2>4. CASE DeployBegin
    BY <2>4 DEF DeployBegin
  <2>5. CASE OpsStep /\ ~OpsArm /\ ~OpsPause
    BY <2>5 DEF OpsStep, OpsRepair, OpsConfigure, OpsRestart, OpsTwoFactor, OpsReady, OpsCheck,
                OpsResume
  <2>6. CASE OpsKilled \/ Reboot \/ \E action \in OpsActions : OpsBegin(action)
    BY <2>6 DEF OpsKilled, Reboot, OpsBegin
  <2>7. CASE \/ Commands \/ Quietly(WdStart) \/ Watchdog \/ Quietly(WdKilled)
             \/ Forgetting(LateRestart) \/ Quietly(Login) \/ Quietly(SessionLost)
             \/ Quietly(WatchdogTick)
    BY <2>7 DEF Commands, Watchdog, Quietly, Forgetting, opsVars
  <2> QED
    BY <2>1, <2>2, <2>3, <2>4, <2>5, <2>6, <2>7 DEF Next
<1> QED
  BY <1>1, <1>2, <1>3, PTL DEF Spec, ArmedOnVerifiedLogin

(* For any number of faults, runs, forced logins and deployments: a        *)
(* workflow run that ended well or failed has the watchdog's timer running *)
(* again, and one that ended well left the Gateway up; a Gateway that is   *)
(* down after it went down in a restart of the watchdog's own.  Nothing is *)
(* claimed of a run whose first or last remote command failed or whose     *)
(* runner died.                                                            *)
THEOREM SuccessLeavesUp == Spec => []NothingLeftDown
<1>1. Init => RateInv /\ OpsInv
  BY RateInit, OpsInit
<1>2. RateInv /\ OpsInv /\ [Next]_vars => (RateInv /\ OpsInv)'
  BY RateStep, OpsInductive
<1>3. OpsInv => NothingLeftDown
  BY DEF OpsInv, Outcome
<1> QED
  BY <1>1, <1>2, <1>3, PTL DEF Spec

-----------------------------------------------------------------------------
(* The types, by the part of the state they are about. *)

GatewayTypes ==
    /\ svc \in {"active", "inactive"} /\ auth \in BOOLEAN /\ young \in BOOLEAN
    /\ ibcMode \in BrokerModes /\ gwMode \in BrokerModes /\ envMode \in Modes
    /\ verified \in BrokerModes \cup {"none"}

HostTypes ==
    /\ timer \in BOOLEAN /\ late \in BOOLEAN /\ wdFailed \in BOOLEAN
    /\ running \subseteq {"cron", "direct"} /\ faults \in 0 .. MaxFaults
    /\ crontab \in BOOLEAN /\ deploy \in {"idle", "installing"}
    /\ opsRuns \in 0 .. MaxOps /\ deploys \in 0 .. MaxDeploys

Workflows == [pc : OpsPC, action : OpsActions, restarts : 0 .. MaxLoginRestarts, status : Outcomes]

WatchdogRuns == [pc : {"idle", "probe", "act", "notify"}, event : Events]

(* TypeOK is not inductive alone: OpsConfigure writes its action into      *)
(* IBC's file, so only configure-<mode> may get there.                     *)
WorkflowInv == ops \in Workflows /\ (ops.pc = "ibc" => ops.action \in BrokerModes)

RunTypes == wd \in WatchdogRuns /\ WorkflowInv

(* Together with the policy file and the requests of RateInv they are all. *)
LEMMA TypesAreParts == RateInv /\ GatewayTypes /\ HostTypes /\ RunTypes => TypeOK
BY DEF RateInv, GatewayTypes, HostTypes, RunTypes, WorkflowInv, TypeOK, Workflows, WatchdogRuns

(* Initially every part of the state has its type. *)
LEMMA PartsInit == ASSUME Init PROVE GatewayTypes /\ HostTypes /\ RunTypes
<1>1. GatewayTypes
  BY DEF Init, WatchdogInit, GatewayTypes, BrokerModes, Modes
<1>2. HostTypes
  <2>1. 0 \in 0 .. MaxFaults /\ 0 \in 0 .. MaxOps /\ 0 \in 0 .. MaxDeploys
    BY WatchdogAssumption, OpsAssumption
  <2> QED
    BY <2>1, Zenon DEF Init, WatchdogInit, HostTypes
<1>3. RunTypes
  BY OpsAssumption DEF Init, WatchdogInit, RunTypes, IdleRun, Events, WatchdogRuns, WorkflowInv, Workflows,
     OpsPC, OpsActions, Outcomes
<1> QED
  BY <1>1, <1>2, <1>3

(* A fault stays within the budget. *)
LEMMA FaultTypes == ASSUME HostTypes, Fault \/ faults' = faults PROVE faults' \in 0 .. MaxFaults
BY WatchdogAssumption DEF HostTypes, Fault

(* A start gives the Gateway the mode of IBC's file. *)
LEMMA RestartedTypes ==
    ASSUME GatewayTypes, HostTypes, Restarted
    PROVE  /\ svc' = "active" /\ auth' \in BOOLEAN /\ young' \in BOOLEAN /\ gwMode' \in BrokerModes
           /\ late' \in BOOLEAN /\ wdFailed' \in BOOLEAN
BY DEF GatewayTypes, HostTypes, Restarted, Launched

(* What a watchdog run and its surroundings do to the types. *)
LEMMA WatchdogTypes ==
    ASSUME RateInv, GatewayTypes, HostTypes, RunTypes, WdStart \/ WdStep \/ WdKilled \/ LateRestart
           \/ Login \/ SessionLost \/ WatchdogTick
    PROVE  /\ svc' \in {"active", "inactive"} /\ auth' \in BOOLEAN /\ young' \in BOOLEAN
           /\ gwMode' \in BrokerModes /\ UNCHANGED <<ibcMode, envMode, timer, running>>
           /\ late' \in BOOLEAN /\ wdFailed' \in BOOLEAN /\ faults' \in 0 .. MaxFaults
           /\ wd' \in WatchdogRuns
<1> USE DEF GatewayTypes, HostTypes, RunTypes
<1>0. IdleRun \in WatchdogRuns
  BY DEF IdleRun, WatchdogRuns, Events
<1>1. CASE WdStart
  BY <1>1 DEF WdStart, gateway, IdleRun, WatchdogRuns, Events
<1>2. CASE WdDecide
  <2>1. ASSUME NEW status \in Statuses, DecideOn(status) PROVE wd' \in WatchdogRuns
    <3>1. Decide(status).event \in Events
      BY DecideKeepsRestarts
    <3> QED
      BY <2>1, <3>1 DEF DecideOn, WatchdogRuns
  <2>2. wd' \in WatchdogRuns
    BY <1>0, <1>2, <2>1, ProbeIsStatus DEF WdDecide
  <2>3. faults' \in 0 .. MaxFaults
    BY <1>2, FaultTypes DEF WdDecide
  <2> QED
    BY <1>2, <2>2, <2>3 DEF WdDecide, gateway
<1>3. CASE WdRestart
  <2>1. wd' \in WatchdogRuns
    BY <1>3 DEF WdRestart, WatchdogRuns, Events
  <2>2. faults' \in 0 .. MaxFaults
    BY <1>3, FaultTypes DEF WdRestart
  <2>3. CASE Restarted
    BY <1>3, <2>1, <2>2, <2>3, RestartedTypes DEF WdRestart
  <2>4. CASE ~Restarted
    BY <1>3, <2>1, <2>2, <2>4 DEF WdRestart
  <2> QED
    BY <2>3, <2>4
<1>4. CASE WdNotify
  BY <1>0, <1>4 DEF WdNotify, gateway
<1>5. CASE WdKilled
  <2>1. faults' \in 0 .. MaxFaults
    BY <1>5, FaultTypes DEF WdKilled
  <2> QED
    BY <1>0, <1>5, <2>1 DEF WdKilled, gateway
<1>6. CASE LateRestart
  BY <1>6, RestartedTypes DEF LateRestart
<1>7. CASE Login \/ WatchdogTick
  BY <1>7 DEF Login, WatchdogTick
<1>8. CASE SessionLost
  <2>1. faults' \in 0 .. MaxFaults
    BY <1>8, FaultTypes DEF SessionLost
  <2> QED
    BY <1>8, <2>1 DEF SessionLost, Launched
<1> QED
  BY <1>1, <1>2, <1>3, <1>4, <1>5, <1>6, <1>7, <1>8 DEF WdStep

(* A step of the workflow leaves it in a known place with the restarts     *)
(* within their bound.                                                     *)
LEMMA WorkflowTypes ==
    ASSUME RunTypes, GatewayTypes, OpsStep \/ OpsKilled \/ \E action \in OpsActions : OpsBegin(action)
    PROVE  WorkflowInv'
<1>0. ops \in Workflows
  BY DEF RunTypes, WorkflowInv
<1>s. "ok" \in Outcomes /\ "failed" \in Outcomes /\ "aborted" \in Outcomes
  BY DEF Outcomes
<1>1. ASSUME NEW pc \in OpsPC \ {"ibc"}, NEW status \in Outcomes,
             ops' = [ops EXCEPT !.pc = pc] \/ ops' = [ops EXCEPT !.pc = pc, !.status = status]
      PROVE  WorkflowInv'
  <2>1. ops' \in Workflows
    BY <1>0, <1>1 DEF Workflows
  <2>2. ops'.pc = pc
    BY <1>0, <1>1 DEF Workflows
  <2> QED
    BY <2>1, <2>2 DEF WorkflowInv
<1>2. ASSUME NEW pc \in OpsPC \ {"ibc"}, Goto(pc) PROVE WorkflowInv'
  BY <1>1, <1>2, <1>s DEF Goto
<1>3. ASSUME NEW ok \in BOOLEAN, Finish(ok) PROVE WorkflowInv'
  <2>1. "resume" \in OpsPC \ {"ibc"}
    BY DEF OpsPC
  <2> QED
    BY <1>1, <1>3, <1>s, <2>1 DEF Finish
<1>p. /\ "repair" \in OpsPC /\ "ibc" \in OpsPC /\ "restart" \in OpsPC /\ "2fa" \in OpsPC
      /\ "ready" \in OpsPC /\ "check" \in OpsPC /\ "arm" \in OpsPC /\ "idle" \in OpsPC
      /\ "pause" \in OpsPC
  BY DEF OpsPC
<1>4. CASE OpsPause \/ OpsConfigure \/ OpsTwoFactor \/ OpsCheck \/ OpsArm
  <2>1. (\E pc \in {"repair", "restart", "ready", "arm"} : Goto(pc)) \/ Finish(TRUE) \/ Finish(FALSE)
    BY <1>4 DEF OpsPause, OpsConfigure, OpsTwoFactor, OpsCheck, OpsArm
  <2> QED
    BY <1>2, <1>3, <1>p, <2>1
<1>5. CASE OpsRepair
  <2>1. ASSUME Goto(AfterRepair) PROVE WorkflowInv'
    <3>1. AfterRepair \in OpsPC /\ (AfterRepair = "ibc" => ops.action \in BrokerModes)
      BY <1>p DEF AfterRepair
    <3> QED
      BY <1>0, <2>1, <3>1 DEF Goto, WorkflowInv, Workflows
  <2> QED
    BY <1>3, <1>5, <2>1 DEF OpsRepair
<1>6. CASE OpsRestart
  <2>1. ASSUME NEW ok \in BOOLEAN, NextAfterRestart(ok) PROVE WorkflowInv'
    <3>1. Finish(ok) \/ Goto("ready") \/ Goto("2fa") \/ Finish(FALSE)
      BY <2>1, Zenon DEF NextAfterRestart
    <3> QED
      BY <1>2, <1>3, <1>p, <3>1
  <2> QED
    BY <1>6, <2>1 DEF OpsRestart
<1>7. CASE OpsReady
  <2>1. ASSUME MayForceLogin, ops' = [ops EXCEPT !.restarts = @ + 1] PROVE WorkflowInv'
    <3>1. ops.restarts + 1 \in 0 .. MaxLoginRestarts
      BY <1>0, <2>1, OpsAssumption DEF MayForceLogin, Workflows
    <3>2. ops.pc = "ready"
      BY <1>7 DEF OpsReady
    <3> QED
      BY <1>0, <2>1, <3>1, <3>2 DEF WorkflowInv, Workflows
  <2> QED
    BY <1>2, <1>3, <1>7, <1>p, <2>1 DEF OpsReady
<1>8. CASE OpsResume
  BY <1>1, <1>2, <1>8, <1>p, <1>s DEF OpsResume
<1>9. CASE OpsKilled
  BY <1>1, <1>9, <1>p, <1>s DEF OpsKilled
<1>10. ASSUME NEW action \in OpsActions, OpsBegin(action) PROVE WorkflowInv'
  <2>1. CASE ops' = [ops EXCEPT !.status = "aborted"]
    <3>1. ops.pc = "idle"
      BY <1>10 DEF OpsBegin
    <3> QED
      BY <1>0, <1>s, <2>1, <3>1 DEF WorkflowInv, Workflows
  <2>2. ASSUME NEW pc \in {"pause", "repair"},
               ops' = [pc |-> pc, action |-> action, restarts |-> 0, status |-> "failed"]
        PROVE  WorkflowInv'
    <3>1. 0 \in 0 .. MaxLoginRestarts
      BY OpsAssumption
    <3> QED
      BY <1>p, <1>s, <2>2, <3>1 DEF WorkflowInv, Workflows
  <2> QED
    BY <1>10, <2>1, <2>2 DEF OpsBegin
<1> QED
  BY <1>4, <1>5, <1>6, <1>7, <1>8, <1>9, <1>10 DEF OpsStep

(* What the workflow does to the Gateway. *)
LEMMA WorkflowGateway ==
    ASSUME RunTypes, GatewayTypes, HostTypes, OpsStep PROVE GatewayTypes' /\ HostTypes' /\ wd' = wd
<1> USE DEF GatewayTypes, HostTypes
<1>1. CASE OpsPause \/ OpsTwoFactor \/ OpsArm
  BY <1>1 DEF OpsPause, OpsTwoFactor, OpsArm, UnchangedHost, UnchangedGateway, UnchangedDeploy
<1>2. CASE OpsConfigure
  <2>1. ops.pc = "ibc" => ops.action \in BrokerModes
    BY DEF RunTypes, WorkflowInv
  <2> QED
    BY <1>2, <2>1, ZenonT(30) DEF OpsConfigure, ConfigureIbc, UnchangedHost, UnchangedGateway, UnchangedDeploy
<1>3. ASSUME StartedAgain \/ UnchangedGateway \/ LeftDown, UNCHANGED <<ibcMode, crontab>>, UnchangedHost,
             UnchangedDeploy
      PROVE  GatewayTypes' /\ HostTypes' /\ wd' = wd
  <2>1. CASE StartedAgain
    BY <1>3, <2>1, RestartedTypes DEF StartedAgain, UnchangedHost, UnchangedDeploy
  <2>2. CASE UnchangedGateway
    BY <1>3, <2>2 DEF UnchangedGateway, UnchangedHost, UnchangedDeploy
  <2>3. CASE LeftDown
    BY <1>3, <2>3 DEF LeftDown, UnchangedHost, UnchangedDeploy
  <2> QED
    BY <1>3, <2>1, <2>2, <2>3
<1>4. CASE OpsRepair
  <2>1. CASE RepairStopped
    BY <1>4, <2>1 DEF OpsRepair, RepairStopped, UnchangedHost, UnchangedDeploy
  <2> QED
    BY <1>3, <1>4, <2>1 DEF OpsRepair
<1>5. CASE OpsRestart
  BY <1>3, <1>5 DEF OpsRestart
<1>6. CASE OpsReady
  BY <1>3, <1>6 DEF OpsReady
<1>7. CASE OpsCheck
  BY <1>7 DEF OpsCheck, UnchangedHost, UnchangedDeploy
<1>8. CASE OpsResume
  BY <1>8 DEF OpsResume, gateway, UnchangedDeploy
<1> QED
  BY <1>1, <1>2, <1>4, <1>5, <1>6, <1>7, <1>8 DEF OpsStep

(* Every step keeps the types of the gateway, the host and the running     *)
(* script.                                                                 *)
LEMMA PartsStep ==
    ASSUME RateInv, GatewayTypes, HostTypes, RunTypes, [Next]_vars
    PROVE  GatewayTypes' /\ HostTypes' /\ RunTypes'
<1> DEFINE Goal == GatewayTypes' /\ HostTypes' /\ RunTypes'
<1>0. IdleRun \in WatchdogRuns
  BY DEF IdleRun, WatchdogRuns, Events
<1>1. ASSUME NEW v \in {verified, "none"}, verified' = v,
             WdStart \/ WdStep \/ WdKilled \/ LateRestart \/ Login \/ SessionLost \/ WatchdogTick,
             UNCHANGED <<crontab, ops, opsRuns, deploy, deploys>>
      PROVE  Goal
  BY <1>1, WatchdogTypes DEF GatewayTypes, HostTypes, RunTypes, WorkflowInv
<1>2. CASE Quietly(WdStart) \/ Watchdog \/ Quietly(WdKilled) \/ Forgetting(LateRestart)
           \/ Quietly(Login) \/ Quietly(SessionLost) \/ Quietly(WatchdogTick)
  BY <1>1, <1>2 DEF Quietly, Watchdog, Forgetting, opsVars, WdStep
<1>3. CASE Commands
  <2>1. running' \subseteq {"cron", "direct"}
    BY <1>3 DEF Commands, CommandStart, CommandEnd, HostTypes
  <2>2. UNCHANGED <<gateway, timer, policy, wd, late, wdFailed, past, faults>> /\ UNCHANGED opsVars
    BY <1>3, Zenon DEF Commands, CommandStart, CommandEnd
  <2> QED
    BY <2>1, <2>2 DEF gateway, opsVars, GatewayTypes, HostTypes, RunTypes, WorkflowInv
<1>4. CASE OpsStep
  BY <1>4, WorkflowGateway, WorkflowTypes DEF RunTypes
<1>5. CASE OpsKilled
  <2>1. WorkflowInv'
    BY <1>5, WorkflowTypes
  <2> QED
    BY <1>5, <2>1 DEF OpsKilled, watchdogVars, gateway, GatewayTypes, HostTypes, RunTypes
<1>6. ASSUME NEW action \in OpsActions, OpsBegin(action) PROVE Goal
  <2>1. WorkflowInv'
    BY <1>6, WorkflowTypes
  <2>2. opsRuns' \in 0 .. MaxOps
    BY <1>6, OpsAssumption DEF OpsBegin, HostTypes
  <2>3. wd' \in WatchdogRuns /\ timer' \in BOOLEAN
    BY <1>0, <1>6 DEF OpsBegin, RunTypes, HostTypes
  <2> QED
    BY <1>6, <2>1, <2>2, <2>3 DEF OpsBegin, gateway, GatewayTypes, HostTypes, RunTypes
<1>7. CASE DeployBegin
  <2>1. deploys' \in 0 .. MaxDeploys
    BY <1>7, OpsAssumption DEF DeployBegin, HostTypes
  <2> QED
    BY <1>7, <2>1 DEF DeployBegin, gateway, GatewayTypes, HostTypes, RunTypes, WorkflowInv
<1>8. CASE DeployEnv
  BY <1>8 DEF DeployEnv, GatewayTypes, HostTypes, RunTypes, WorkflowInv
<1>9. CASE Reboot
  <2>1. faults' \in 0 .. MaxFaults
    BY <1>9, FaultTypes DEF Reboot
  <2> QED
    BY <1>0, <1>9, <2>1, RestartedTypes DEF Reboot, StartedAgain, GatewayTypes, HostTypes, RunTypes, WorkflowInv
<1>10. CASE UNCHANGED vars
  BY <1>10 DEF vars, watchdogVars, gateway, opsVars, GatewayTypes, HostTypes, RunTypes, WorkflowInv
<1> QED
  BY <1>2, <1>3, <1>4, <1>5, <1>6, <1>7, <1>8, <1>9, <1>10, Zenon DEF Next

(* Every bound holds for any thresholds, window and budgets: the ages of   *)
(* the policy file stay inside the window, the forced logins of a workflow *)
(* below their maximum, and IBC's file always names a broker mode.         *)
THEOREM GatewayTypeInvariant == Spec => []TypeOK
<1> DEFINE IInv == RateInv /\ GatewayTypes /\ HostTypes /\ RunTypes
<1>1. Init => IInv
  BY RateInit, PartsInit
<1>2. IInv /\ [Next]_vars => IInv'
  BY RateStep, PartsStep
<1>3. IInv => TypeOK
  BY TypesAreParts
<1> QED
  BY <1>1, <1>2, <1>3, PTL DEF Spec

=============================================================================
