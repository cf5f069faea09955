----------------------------- MODULE GatewayOps -----------------------------
(* The Gateway Ops workflow (run_gateway_ops_workflow.py) next to the      *)
(* watchdog, the deployment and the schedule.  Its actions that touch the  *)
(* Gateway are restart, verify-socket and configure-paper/live; one runs   *)
(* at a time (the workflow's concurrency group).  Every remote command may *)
(* fail, before or after it took effect, and the runner may die between    *)
(* two of them.  The workflow takes no POMA lock: it stops the watchdog,   *)
(* and configure also removes the crontab, which only a verified login of  *)
(* the deployed mode brings back.                                          *)
EXTENDS GatewayWatchdog

CONSTANTS
    MaxLoginRestarts,   \* IB_GATEWAY_MAX_TRADING_LOGIN_RESTARTS
    MaxOps,             \* bound on workflow runs
    MaxDeploys          \* bound on deployments

ASSUME OpsAssumption ==
    MaxLoginRestarts \in Nat /\ MaxOps \in Nat /\ MaxDeploys \in Nat

VARIABLES
    crontab,    \* poma's crontab is installed
    verified,   \* the mode whose login ibkr-check and the watchdog's check have
                \* passed since the Gateway was last restarted on purpose
    ops,        \* the workflow run
    opsRuns,    \* workflow runs so far
    deploy,     \* the deployment: "idle" or "installing"
    deploys     \* deployments so far

opsVars == <<crontab, verified, ops, opsRuns, deploy, deploys>>
vars == <<watchdogVars, opsVars>>

OpsActions == {"restart", "verify"} \cup BrokerModes     \* a mode: configure-<mode>
OpsPC == {"idle", "pause", "repair", "ibc", "restart", "2fa", "ready", "check", "arm", "resume"}

Init ==
    /\ WatchdogInit
    /\ crontab = TRUE /\ verified = gwMode
    /\ ops = [pc |-> "idle", action |-> "restart", restarts |-> 0, status |-> "ok"]
    /\ opsRuns = 0 /\ deploy = "idle" /\ deploys = 0

(* How the last run ended: "aborted" is a run whose first command failed,  *)
(* whose command to resume the watchdog failed, or whose runner died.      *)
Outcomes == {"ok", "failed", "aborted"}

(* The finally block runs next; the status of the action is known. *)
Finish(ok) == ops' = [ops EXCEPT !.pc = "resume", !.status = IF ok THEN "ok" ELSE "failed"]
Goto(pc) == ops' = [ops EXCEPT !.pc = pc]

UnchangedHost == UNCHANGED <<timer, policy, wd, running, past, faults, envMode>>
UnchangedGateway == UNCHANGED <<svc, auth, young, gwMode, late, wdFailed, verified>>
UnchangedDeploy == UNCHANGED <<opsRuns, deploy, deploys>>

(* Mutant: the watchdog goes on during the maintenance. *)
OpsBeginBeside(action) ==
    /\ ops.pc = "idle" /\ opsRuns < MaxOps
    /\ opsRuns' = opsRuns + 1
    /\ ops' = [pc |-> IF action \in BrokerModes THEN "pause" ELSE "repair",
               action |-> action, restarts |-> 0, status |-> "failed"]
    /\ UNCHANGED <<watchdogVars, crontab, verified, deploy, deploys>>

(* Stop the timer and a run in progress.  A failure of this command, even  *)
(* one after it took effect, returns before the try block.                 *)
OpsBegin(action) ==
    /\ ops.pc = "idle" /\ opsRuns < MaxOps
    /\ opsRuns' = opsRuns + 1
    /\ \/ /\ ops' = [pc |-> IF action \in BrokerModes THEN "pause" ELSE "repair",
                     action |-> action, restarts |-> 0, status |-> "failed"]
          /\ timer' = FALSE /\ wd' = IdleRun
       \/ /\ ops' = [ops EXCEPT !.status = "aborted"]
          /\ \/ timer' = FALSE /\ wd' = IdleRun
             \/ UNCHANGED <<timer, wd>>
    /\ UNCHANGED <<gateway, policy, late, wdFailed, running, past, faults,
                   crontab, verified, deploy, deploys>>

(* configure: crontab -r -u poma. *)
OpsPause ==
    /\ ops.pc = "pause"
    /\ \/ crontab' = FALSE /\ Goto("repair")
       \/ crontab' \in {crontab, FALSE} /\ Finish(FALSE)
    /\ UNCHANGED ibcMode
    /\ UnchangedGateway /\ UnchangedHost /\ UnchangedDeploy

AfterRepair == IF ops.action \in BrokerModes THEN "ibc" ELSE "restart"

(* A start on purpose ends what was verified. *)
StartedAgain == Restarted /\ verified' = "none"

(* repair_ib_gateway_runtime.py stops the service first; a package, Gateway *)
(* or IBC that cannot be installed leaves it stopped.                       *)
RepairStopped ==
    /\ svc' = "inactive" /\ auth' = FALSE /\ late' = FALSE /\ verified' = "none"
    /\ UNCHANGED <<young, gwMode, wdFailed>>

(* repair_runtime: nothing to do, or stop the service, install, and start  *)
(* it again; it may fail at any point.                                     *)
OpsRepair ==
    /\ ops.pc = "repair"
    /\ \/ /\ UnchangedGateway \/ StartedAgain
          /\ Goto(AfterRepair) \/ Finish(FALSE)
       \/ RepairStopped /\ Finish(FALSE)
    /\ UNCHANGED <<ibcMode, crontab>>
    /\ UnchangedHost /\ UnchangedDeploy

(* poma-configure-ibc rewrites config.ini; the Gateway reads it at its next *)
(* start, whoever starts it.                                                *)
ConfigureIbc == ibcMode' = ops.action

(* poma-configure-ibc, validate and checkpoint. *)
OpsConfigure ==
    /\ ops.pc = "ibc"
    /\ \/ ConfigureIbc /\ (Goto("restart") \/ Finish(FALSE))
       \/ UNCHANGED ibcMode /\ Finish(FALSE)
    /\ UNCHANGED crontab
    /\ UnchangedGateway /\ UnchangedHost /\ UnchangedDeploy

(* Mutant: the restart action does not look at the exit status. *)
NextWithoutStatus(ok) ==
    CASE ops.action = "restart" -> Finish(TRUE)
      [] ops.action = "verify" -> Goto("ready")
      [] ops.action = "live" /\ ok -> Goto("2fa")
      [] ops.action = "paper" /\ ok -> Goto("ready")
      [] OTHER -> Finish(FALSE)

NextAfterRestart(ok) ==
    CASE ops.action = "restart" -> Finish(ok)
      [] ops.action = "verify" -> Goto("ready")            \* || true
      [] ops.action = "live" /\ ok -> Goto("2fa")
      [] ops.action = "paper" /\ ok -> Goto("ready")
      [] OTHER -> Finish(FALSE)

(* A restart that failed after the stop. *)
LeftDown ==
    /\ svc' = "inactive" /\ auth' = FALSE /\ verified' = "none"
    /\ UNCHANGED <<young, gwMode, late, wdFailed>>

(* systemctl restart ibgateway: done, not done, or the unit is left down;  *)
(* the answer may be lost.                                                 *)
OpsRestart ==
    /\ ops.pc = "restart"
    /\ \/ StartedAgain /\ (NextAfterRestart(TRUE) \/ NextAfterRestart(FALSE))
       \/ UnchangedGateway /\ NextAfterRestart(FALSE)
       \/ LeftDown /\ NextAfterRestart(FALSE)
    /\ UNCHANGED <<ibcMode, crontab>>
    /\ UnchangedHost /\ UnchangedDeploy

(* wait_for_2fa: a fresh challenge or an open socket, or a failure. *)
OpsTwoFactor ==
    /\ ops.pc = "2fa"
    /\ Goto("ready") \/ Finish(FALSE)
    /\ UNCHANGED <<ibcMode, crontab>>
    /\ UnchangedGateway /\ UnchangedHost /\ UnchangedDeploy

(* Mutant: one forced login too many. *)
MayForceLoginAgain == ops.restarts <= MaxLoginRestarts

MayForceLogin == ops.restarts < MaxLoginRestarts

(* api_ready: wait for the socket, then ibkr-check; a retriable failure    *)
(* forces a fresh login, a bounded number of times.                        *)
OpsReady ==
    /\ ops.pc = "ready"
    /\ \/ /\ svc = "active" /\ auth
          /\ IF ops.action = "verify" THEN Finish(TRUE) ELSE Goto("check")
          /\ UnchangedGateway
       \/ /\ svc = "active" /\ MayForceLogin
          /\ ops' = [ops EXCEPT !.restarts = @ + 1]
          /\ StartedAgain \/ UnchangedGateway \/ LeftDown      \* its result is ignored
       \/ Finish(FALSE) /\ UnchangedGateway
    /\ UNCHANGED <<ibcMode, crontab>>
    /\ UnchangedHost /\ UnchangedDeploy

(* verify_recovery_watchdog: --check-only takes both locks and asks for an *)
(* authenticated or disabled account; 75 is retried, then given up.        *)
OpsCheck ==
    /\ ops.pc = "check"
    /\ \/ /\ CommandLockFree /\ RuntimeLockFree /\ svc = "active"
          /\ ProbeStatus \in {"authenticated", "disabled"}
          /\ verified' = gwMode /\ Goto("arm")
       \/ UNCHANGED verified /\ Finish(FALSE)
    /\ UNCHANGED <<svc, auth, young, ibcMode, gwMode, late, wdFailed, crontab>>
    /\ UnchangedHost /\ UnchangedDeploy

(* Install the crontab if .env has the mode just verified; restarting cron *)
(* may still fail.                                                         *)
OpsArm ==
    /\ ops.pc = "arm"
    /\ \/ crontab' = (crontab \/ envMode = ops.action) /\ (Finish(TRUE) \/ Finish(FALSE))
       \/ UNCHANGED crontab /\ Finish(FALSE)
    /\ UNCHANGED ibcMode
    /\ UnchangedGateway /\ UnchangedHost /\ UnchangedDeploy

(* finally: start the timer again; a failure becomes the workflow's.       *)
OpsResume ==
    /\ ops.pc = "resume"
    /\ \/ timer' = TRUE /\ Goto("idle")
       \/ timer' \in {timer, TRUE} /\ ops' = [ops EXCEPT !.pc = "idle", !.status = "aborted"]
    /\ UNCHANGED <<gateway, policy, wd, late, wdFailed, running, past, faults, crontab, verified>>
    /\ UnchangedDeploy

OpsStep ==
    \/ OpsPause \/ OpsRepair \/ OpsConfigure \/ OpsRestart \/ OpsTwoFactor
    \/ OpsReady \/ OpsCheck \/ OpsArm \/ OpsResume

(* The runner dies, or the job is cancelled. *)
OpsKilled ==
    /\ ops.pc # "idle"
    /\ ops' = [ops EXCEPT !.pc = "idle", !.status = "aborted"]
    /\ UNCHANGED <<watchdogVars, crontab, verified, opsRuns, deploy, deploys>>

-----------------------------------------------------------------------------
(* The deployment: crontab -r, then the new code and .env, then the        *)
(* schedule, unless the mode needs a broker.  It may stop half-way, and    *)
(* nothing keeps it from running beside Gateway Ops: their concurrency     *)
(* groups differ.                                                          *)

DeployBegin ==
    /\ deploy = "idle" /\ deploys < MaxDeploys
    /\ crontab' = FALSE
    /\ running' \in SUBSET running                    \* docker compose down
    /\ deploy' = "installing" /\ deploys' = deploys + 1
    /\ UNCHANGED <<gateway, timer, policy, wd, late, wdFailed, past, faults, verified, ops, opsRuns>>

DeployEnv ==
    /\ deploy = "installing"
    /\ \E mode \in Modes :
        /\ envMode' = mode
        /\ crontab' \in {crontab, crontab \/ mode = "dry_run"}
    /\ deploy' = "idle"
    /\ UNCHANGED <<svc, auth, young, ibcMode, gwMode, timer, policy, wd, late, wdFailed, running, past,
                   faults, verified, ops, opsRuns, deploys>>

(* A VM restart: enabled units start; the workflow's next command waits.   *)
Reboot ==
    /\ Fault /\ ops.pc = "idle" /\ deploy = "idle"
    /\ StartedAgain
    /\ timer' = TRUE /\ wd' = IdleRun /\ running' = {}
    /\ UNCHANGED <<ibcMode, envMode, policy, past, crontab, ops, opsRuns, deploy, deploys>>

-----------------------------------------------------------------------------
Commands ==
    /\ \/ crontab /\ CommandStart("cron")
       \/ CommandStart("direct")
       \/ \E c \in running : CommandEnd(c)
    /\ UNCHANGED opsVars

Quietly(A) == A /\ UNCHANGED opsVars

(* A restart by the watchdog, at once or late, ends what was verified. *)
Forgetting(A) ==
    /\ A /\ verified' = "none"
    /\ UNCHANGED <<crontab, ops, opsRuns, deploy, deploys>>

Watchdog == Quietly(WdDecide) \/ Forgetting(WdRestart) \/ Quietly(WdNotify)

Next ==
    \/ Commands \/ Quietly(WdStart) \/ Watchdog \/ Quietly(WdKilled) \/ Forgetting(LateRestart)
    \/ Quietly(Login) \/ Quietly(SessionLost) \/ Quietly(WatchdogTick)
    \/ \E action \in OpsActions : OpsBegin(action)
    \/ OpsStep \/ OpsKilled \/ DeployBegin \/ DeployEnv \/ Reboot

Spec == Init /\ [][Next]_vars

(* The timer starts a run every two minutes, and some run finds both locks *)
(* free; a started run, a command and a workflow run go on; time passes.   *)
(* No login, deployment or repair is assumed.                              *)
Fairness ==
    /\ SF_vars(Quietly(WdStart)) /\ WF_vars(Watchdog) /\ SF_vars(Quietly(WatchdogTick))
    /\ WF_vars(\E c \in running : Quietly(CommandEnd(c))) /\ WF_vars(OpsStep)

FairSpec == Spec /\ Fairness

-----------------------------------------------------------------------------
(* The types of the state. *)
TypeOK ==
    /\ svc \in {"active", "inactive"} /\ auth \in BOOLEAN /\ young \in BOOLEAN
    /\ {ibcMode, gwMode} \subseteq BrokerModes /\ envMode \in Modes /\ timer \in BOOLEAN
    /\ policy \in Policies
    /\ wd \in [pc : {"idle", "probe", "act", "notify"}, event : Events]
    /\ late \in BOOLEAN /\ wdFailed \in BOOLEAN /\ running \subseteq {"cron", "direct"}
    /\ past \subseteq 0 .. RestartWindow /\ faults \in 0 .. MaxFaults
    /\ crontab \in BOOLEAN /\ verified \in BrokerModes \cup {"none"}
    /\ ops \in [pc : OpsPC, action : OpsActions, restarts : 0 .. MaxLoginRestarts,
               status : Outcomes]
    /\ opsRuns \in 0 .. MaxOps /\ deploys \in 0 .. MaxDeploys
    /\ deploy \in {"idle", "installing"}

(* "at least 15 minutes between attempts and at most two per hour"         *)
(* (docs/ibkr-gateway-operations.md), whatever kills the watchdog between  *)
(* its decision, the save and the restart: a run asks systemd for a        *)
(* restart only if all earlier requests are a cooldown old and fewer than  *)
(* MAX_RESTARTS_PER_WINDOW of them lie in the window.                      *)
RestartsRateLimited ==
    [][(wd.pc = "act" /\ wd'.pc = "notify")
          => /\ \A a \in past : a >= RestartCooldown
             /\ Cardinality(Recent(past)) < MaxRestartsPerWindow]_vars

(* "it skips while a supported trading or maintenance command is running"  *)
(* (docs/ibkr-gateway-operations.md): from the probe to the restart no     *)
(* scheduled and no direct command runs.  A restart job whose systemctl    *)
(* client timed out is beyond this: it can complete after the locks are    *)
(* gone.                                                                   *)
WatchdogExcludesCommands == wd.pc # "idle" => running = {}

(* "only successful readiness re-arms it": Gateway Ops installs the        *)
(* crontab only for the deployed mode, on a login of that mode that was    *)
(* verified after the last deliberate restart.                             *)
ArmedOnVerifiedLogin ==
    [][(crontab' /\ ~crontab /\ envMode' \in BrokerModes)
          => (verified = envMode' /\ gwMode = envMode')]_vars

(* "pauses the watchdog during explicit configure/restart work and resumes *)
(* the timer afterwards, including failures"                               *)
(* (docs/ibkr-gateway-operations.md), as far as main keeps it: after a run *)
(* that ended well or failed the timer runs, unless the command that stops *)
(* it or the one that resumes it failed or the runner died; and a run that *)
(* ended well left the Gateway up: if it is down now, which the watchdog   *)
(* skips, a restart of the watchdog's own failed since.                    *)
NothingLeftDown ==
    ops.pc = "idle" =>
      /\ ops.status \in {"ok", "failed"} => timer
      /\ ops.status = "ok" => (svc = "active" \/ wdFailed)

(* A lost login. *)
Lost == svc = "active" /\ ~auth /\ timer /\ envMode \in BrokerModes /\ ops.pc = "idle"

(* decide: neither the cooldown nor the budget of restarts can lock        *)
(* recovery out; as long as the login stays lost, restarts are requested   *)
(* again and again.                                                        *)
LoginIsRetried == []<>(~Lost \/ wd.pc = "act")
=============================================================================
