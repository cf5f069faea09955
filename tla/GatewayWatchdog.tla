--------------------------- MODULE GatewayWatchdog ---------------------------
(* The authenticated-Gateway recovery watchdog of the VM host              *)
(* (gateway_auth_watchdog.py), the IB Gateway service it may restart, and  *)
(* the trading commands it must not disturb.  A systemd timer starts one   *)
(* watchdog run after another; a run takes the command lock and the        *)
(* runtime lock without waiting, probes the account, updates its policy    *)
(* file and only then restarts the service.                                *)
EXTENDS Naturals, FiniteSets

CONSTANTS
    FailureThreshold,      \* FAILURE_THRESHOLD
    RestartCooldown,       \* RESTART_COOLDOWN_SECONDS, in ticks
    RestartWindow,         \* RESTART_WINDOW_SECONDS, in ticks
    MaxRestartsPerWindow,  \* MAX_RESTARTS_PER_WINDOW
    AlertInterval,         \* ALERT_INTERVAL_SECONDS, in ticks
    MaxFaults              \* bound on probe and restart faults

ASSUME WatchdogAssumption ==
    /\ FailureThreshold \in Nat \ {0} /\ RestartCooldown \in Nat \ {0}
    /\ RestartWindow \in Nat \ {0} /\ MaxRestartsPerWindow \in Nat \ {0}
    /\ RestartCooldown <= RestartWindow
    /\ AlertInterval \in Nat \ {0} /\ MaxFaults \in Nat

VARIABLES
    svc,       \* the ibgateway unit is "active" or "inactive"
    auth,      \* Gateway is logged in
    young,     \* active for less than STARTUP_GRACE_SECONDS
    ibcMode,   \* TradingMode of IBC's config.ini
    gwMode,    \* the mode the Gateway was last started with
    envMode,   \* TRADING_MODE of /opt/poma/.env
    timer,     \* poma-gateway-watchdog.timer runs
    policy,    \* /var/lib/poma/gateway-watchdog.json
    wd,        \* the watchdog run
    late,      \* a restart job whose systemctl client timed out
    wdFailed,  \* the last restart the watchdog asked for failed, and none
               \* has succeeded since
    running,   \* trading commands: cron ones and direct CLI ones
    past,      \* ages of the restarts the watchdog asked for
    faults     \* faults so far

gateway == <<svc, auth, young, ibcMode, gwMode, envMode>>
watchdogVars == <<gateway, timer, policy, wd, late, wdFailed, running, past, faults>>

BrokerModes == {"paper", "live"}
Modes == BrokerModes \cup {"dry_run"}
Statuses == {"authenticated", "unavailable", "configuration_error", "disabled", "probe_error"}
Events == {"none", "restart", "restart_failed", "waiting", "recovered", "configuration"}

IdleRun == [pc |-> "idle", event |-> "none"]

Policies == [failures : 0 .. FailureThreshold, incident : BOOLEAN,
             alert : 0 .. AlertInterval, restarts : SUBSET (0 .. RestartWindow)]

(* State(): last_alert = 0 is long ago. *)
NewPolicy == [failures |-> 0, incident |-> FALSE, alert |-> AlertInterval, restarts |-> {}]

WatchdogInit ==
    /\ svc = "active" /\ auth = TRUE /\ young = FALSE
    /\ ibcMode = "paper" /\ gwMode = "paper" /\ envMode = "paper"
    /\ timer = TRUE /\ policy = NewPolicy /\ wd = IdleRun
    /\ late = FALSE /\ wdFailed = FALSE /\ running = {} /\ past = {} /\ faults = 0

Fault == faults < MaxFaults /\ faults' = faults + 1

(* The engine starts IBC, which reads its config.ini. *)
Launched == auth' = FALSE /\ young' = TRUE /\ gwMode' = ibcMode

(* systemctl restart ibgateway: a fresh login is needed.  systemd merges   *)
(* it with a job that is still queued.                                     *)
Restarted == svc' = "active" /\ Launched /\ late' = FALSE /\ wdFailed' = FALSE

-----------------------------------------------------------------------------
(* Trading commands.  cron's wrapper takes the command lock and then the   *)
(* runtime lock, a direct CLI command only the runtime lock; neither waits.*)

CommandLockFree == wd.pc = "idle" /\ "cron" \notin running
RuntimeLockFree == wd.pc = "idle" /\ running = {}

CommandStart(c) ==
    /\ c = "cron" => CommandLockFree
    /\ RuntimeLockFree
    /\ running' = running \cup {c}
    /\ UNCHANGED <<gateway, timer, policy, wd, late, wdFailed, past, faults>>

CommandEnd(c) ==
    /\ c \in running
    /\ running' = running \ {c}
    /\ UNCHANGED <<gateway, timer, policy, wd, late, wdFailed, past, faults>>

-----------------------------------------------------------------------------
(* One watchdog run. *)

(* Mutant: the runtime lock, which direct commands hold, is not taken. *)
WdStartCommandLock ==
    /\ timer /\ wd.pc = "idle"
    /\ svc = "active" /\ ~young
    /\ CommandLockFree
    /\ wd' = [IdleRun EXCEPT !.pc = "probe"]
    /\ UNCHANGED <<gateway, timer, policy, late, wdFailed, running, past, faults>>

(* tick, up to command_locks: a stopped or young Gateway, and a busy lock, *)
(* end the run with nothing changed.                                       *)
WdStart ==
    /\ timer /\ wd.pc = "idle"
    /\ svc = "active" /\ ~young
    /\ CommandLockFree /\ RuntimeLockFree
    /\ wd' = [IdleRun EXCEPT !.pc = "probe"]
    /\ UNCHANGED <<gateway, timer, policy, late, wdFailed, running, past, faults>>

(* probe_authentication through gateway-auth-check and                     *)
(* authentication_status, when docker, the container and the API answer.   *)
ProbeStatus ==
    CASE envMode = "dry_run" -> "disabled"
      [] svc = "active" /\ auth /\ gwMode # envMode -> "configuration_error"
      [] svc = "active" /\ auth -> "authenticated"
      [] OTHER -> "unavailable"

(* Something between the watchdog and the account fails. *)
FaultyStatuses == {"probe_error", "unavailable", "configuration_error"}

Recent(ages) == {a \in ages : a < RestartWindow}

Limited(p) ==
    \/ \E a \in p.restarts : a < RestartCooldown
    \/ Cardinality(p.restarts) >= MaxRestartsPerWindow

Quiet(p) == p.alert < AlertInterval

(* Mutant: a restart that is not allowed is recorded as well. *)
WaitingRecorded(p) ==
    [p EXCEPT !.failures = FailureThreshold, !.incident = TRUE,
              !.alert = IF Quiet(p) THEN @ ELSE 0, !.restarts = @ \cup {0}]

(* No restart now; failures beyond the threshold are all alike. *)
Waiting(p) ==
    [p EXCEPT !.failures = FailureThreshold, !.incident = TRUE,
              !.alert = IF Quiet(p) THEN @ ELSE 0]

Decision(p, restart, event) == [policy |-> p, restart |-> restart, event |-> event]

(* decide, on the policy p without the restarts that left the window: the  *)
(* restart is recorded before it is performed.                             *)
Judge(p, status) ==
    CASE status = "authenticated" ->
           Decision([p EXCEPT !.failures = 0, !.incident = FALSE], FALSE,
                    IF p.incident THEN "recovered" ELSE "none")
      [] status = "disabled" ->
           Decision([p EXCEPT !.failures = 0, !.incident = FALSE], FALSE, "none")
      [] status = "configuration_error" ->
           Decision([p EXCEPT !.failures = 0, !.incident = TRUE,
                              !.alert = IF p.incident /\ Quiet(p) THEN @ ELSE 0],
                    FALSE, IF p.incident /\ Quiet(p) THEN "none" ELSE "configuration")
      [] status = "unavailable" /\ p.failures + 1 < FailureThreshold ->
           Decision([p EXCEPT !.failures = @ + 1], FALSE, "none")
      [] status = "unavailable" /\ p.failures + 1 >= FailureThreshold /\ Limited(p) ->
           Decision(Waiting(p), FALSE, IF Quiet(p) THEN "none" ELSE "waiting")
      [] OTHER ->
           Decision([p EXCEPT !.failures = 0, !.incident = TRUE, !.alert = 0,
                              !.restarts = @ \cup {0}], TRUE, "restart")

Current == [policy EXCEPT !.restarts = Recent(@)]

(* A probe that failed says nothing about Gateway. *)
Decide(status) ==
    IF status = "probe_error" THEN Decision([policy EXCEPT !.failures = 0], FALSE, "none")
    ELSE Judge(Current, status)

(* Mutant: the decision to restart is not stored. *)
SavedUnlessRestart(d) == IF d.restart THEN policy ELSE d.policy

(* save_state comes first. *)
Saved(d) == d.policy

DecideOn(status) ==
    LET d == Decide(status)
    IN /\ policy' = Saved(d)
       /\ wd' = [pc |-> IF d.restart THEN "act" ELSE "notify", event |-> d.event]

(* The probe, load_state, decide and save_state.  A save that fails ends   *)
(* the run: nothing is stored and nothing is restarted.                    *)
WdDecide ==
    /\ wd.pc = "probe"
    /\ \/ faults' = faults /\ DecideOn(ProbeStatus)
       \/ Fault /\ \E status \in FaultyStatuses : DecideOn(status)
       \/ Fault /\ wd' = IdleRun /\ UNCHANGED policy
    /\ UNCHANGED <<gateway, timer, late, wdFailed, running, past>>

(* systemctl restart: done, refused (the unit keeps running or stays       *)
(* down), or not finished within 45 seconds, with the job still queued.    *)
WdRestart ==
    /\ wd.pc = "act"
    /\ past' = past \cup {0}
    /\ \/ /\ Restarted /\ faults' = faults
          /\ wd' = [pc |-> "notify", event |-> "restart"]
       \/ /\ Fault
          /\ wd' = [pc |-> "notify", event |-> "restart_failed"]
          /\ \/ svc' \in {svc, "inactive"} /\ auth' = (auth /\ svc' = svc) /\ UNCHANGED <<young, late>>
             \/ late' = TRUE /\ UNCHANGED <<svc, auth, young>>
          /\ wdFailed' = TRUE /\ UNCHANGED gwMode
    /\ UNCHANGED <<ibcMode, envMode, timer, policy, running>>

(* gateway-watchdog-notify, whose result is ignored: whether the alert got *)
(* out is not part of the state.  The run ends, its locks are released.    *)
WdNotify ==
    /\ wd.pc = "notify"
    /\ wd' = IdleRun
    /\ UNCHANGED <<gateway, timer, policy, late, wdFailed, running, past, faults>>

(* systemd finishes the job that timed out. *)
LateRestart ==
    /\ late
    /\ Restarted
    /\ UNCHANGED <<ibcMode, envMode, timer, policy, wd, running, past, faults>>

(* The run is killed, at worst after a failed restart and before its       *)
(* alert: the kernel releases both locks.                                  *)
WdKilled ==
    /\ wd.pc # "idle" /\ Fault
    /\ wd' = IdleRun
    /\ UNCHANGED <<gateway, timer, policy, late, wdFailed, running, past>>

WdStep == WdDecide \/ WdRestart \/ WdNotify

-----------------------------------------------------------------------------
(* The Gateway and the clock. *)

(* IBC logs in, or the user approves the prompt. *)
Login ==
    /\ svc = "active" /\ ~auth
    /\ auth' = TRUE
    /\ UNCHANGED <<svc, young, ibcMode, gwMode, envMode, timer, policy, wd, late, wdFailed,
                   running, past, faults>>

(* The session expires; or the process dies, and systemd starts it again.  *)
SessionLost ==
    /\ auth /\ Fault
    /\ (auth' = FALSE /\ UNCHANGED <<young, gwMode>>) \/ Launched
    /\ UNCHANGED <<svc, ibcMode, envMode, timer, policy, wd, late, wdFailed, running, past>>

Older(a, cap) == IF a < cap THEN a + 1 ELSE a

(* A tick is a cooldown; a watchdog run takes less (TimeoutStartSec=360).  *)
WatchdogTick ==
    /\ wd.pc = "idle"
    /\ young' = FALSE
    /\ policy' = [policy EXCEPT !.alert = Older(@, AlertInterval),
                                !.restarts = {Older(a, RestartWindow) : a \in @}]
    /\ past' = {Older(a, RestartWindow) : a \in past}
    /\ UNCHANGED <<svc, auth, ibcMode, gwMode, envMode, timer, wd, late, wdFailed, running, faults>>
=============================================================================
