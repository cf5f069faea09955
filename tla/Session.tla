------------------------------ MODULE Session ------------------------------
(***************************************************************************)
(* The rebalance session over scheduled commands: poma/state.py, the       *)
(* monitor, rebalance and reconcile-orders commands of poma/cli.py, the    *)
(* statuses of poma/engine.py, the incident gate of                        *)
(* poma/recovery_readiness.py and the cron wrapper that drives it.         *)
(*                                                                         *)
(* An order is what the ledger row says of it, reduced to what these       *)
(* commands tell apart; modules Submission and Reconcile hold the detail   *)
(* of how a row gets there.                                                *)
(***************************************************************************)
EXTENDS Naturals, FiniteSets

CONSTANTS
    Trades,             \* (ticker, side) pairs
    MaxRuns,            \* bound: run ids minted
    MaxDays,            \* bound: trading days
    MaxRetryAttempts,   \* _MAX_REBALANCE_RETRY_ATTEMPTS
    MaxCrashes          \* bound: killed containers and host failures

ASSUME SessionAssumption ==
    /\ MaxRuns \in Nat /\ MaxDays \in Nat \ {0} /\ MaxCrashes \in Nat
    /\ MaxRetryAttempts \in Nat \ {0}

VARIABLES
    clock,              \* exchange day, and where it stands in the trading window
    local,              \* rebalance_state.json
    rows,               \* the order ledger: (run, trade) -> row
    journal,            \* run -> its planned-orders file
    incident,           \* cron-alert-reconcile-orders.json says active
    proc,               \* the command that holds the runtime lock
    wrap,               \* run_logged.sh: the host lock, and a result to report
    runs,               \* run ids minted so far
    crashes

sessionVars == <<clock, local, rows, journal, incident, proc, wrap, runs, crashes>>

Runs == 1..MaxRuns

Keys == Runs \X Trades

(* "retry": a pre-acceptance failure without broker order; "final": any    *)
(* other terminal row; "lost": an UNKNOWN row whose order was never sent,  *)
(* so that no broker evidence can ever settle it.                          *)
RowStates == {"absent", "planned", "retry", "working", "unknown", "lost", "final"}

Unverified == {k \in Keys : rows[k] \in {"unknown", "lost"}}

OpenRows == {k \in Keys : rows[k] \in {"planned", "working", "unknown", "lost"}}

RowsOf(run) == {k \in Keys : k[1] = run}

(* What submit_plan returns for a trade, told apart by whether it counts   *)
(* as accepted, as an issue, as retryable.  "issue": neither accepted nor  *)
(* retryable; "partial": accepted or filled, with an issue.                *)
FreshKinds == {"working", "filled", "retry", "contract", "issue", "partial"}

(* The ledger rows a result can leave behind: an exception of placeOrder   *)
(* leaves the row uncertain, also when IBKR never got the order.           *)
RowAfter(kind) ==
    CASE kind = "working" -> {"working"}
      [] kind = "filled" -> {"final"}
      [] kind = "contract" -> {"final"}
      [] kind = "retry" -> {"retry"}
      [] kind = "issue" -> {"final", "working", "unknown", "lost"}
      [] kind = "partial" -> {"final", "working", "unknown"}

TerminalStatuses ==
    {"completed", "completed_with_order_issues", "orders_pending",
     "no_orders_accepted", "blocked", "failed"}

IdleProc ==
    [pc |-> "idle", job |-> "none", run |-> 0, todo |-> {}, err |-> FALSE,
     block |-> {}, res |-> [t \in {} |-> "replay"], assess |-> {}, verify |-> FALSE]

NoSession == [day |-> 0, run |-> 0, status |-> "none", attempts |-> 0]

SessionInit ==
    /\ clock = [day |-> 1, phase |-> "open"]
    /\ local = NoSession
    /\ rows = [k \in Keys |-> "absent"]
    /\ journal = [r \in Runs |-> "none"]
    /\ incident = FALSE
    /\ proc = IdleProc /\ wrap = "free"
    /\ runs = 0 /\ crashes = 0

At(pc) == proc.pc = pc

Go(pc) == proc' = [proc EXCEPT !.pc = pc]

(* The command ends.  For reconcile-orders the wrapper has its exit status *)
(* to report; monitor's own incident file steers nothing.                  *)
EndCommand(result) ==
    /\ proc' = IdleProc
    /\ wrap' = CASE proc.job = "reconcile" -> result
                 [] proc.job = "monitor" -> "free"
                 [] OTHER -> wrap

-----------------------------------------------------------------------------
(* monitor: a session that was interrupted or waits for a retry is resumed *)
(* under its run id, at any time of its day; a new one starts in the       *)
(* trading window.                                                         *)

SessionStatus == IF local.day = clock.day THEN local.status ELSE "none"

(* Mutant: a session whose orders are pending is resumed as well. *)
ResumingPending == SessionStatus \in {"running", "retry_wait", "orders_pending"}

Resuming == SessionStatus \in {"running", "retry_wait"}

BeginSession(run) ==
    local' = [day |-> clock.day, run |-> run, status |-> "running",
              attempts |-> IF local.day = clock.day /\ local.run = run
                           THEN local.attempts + 1 ELSE 1]

StartCommand(job, run) ==
    proc' = [IdleProc EXCEPT !.pc = IF job = "reconcile" THEN "fetch" ELSE "gate",
                             !.job = job, !.run = run,
                             !.verify = job = "reconcile" /\ incident]

MonitorBegins ==
    /\ At("idle") /\ wrap = "free"
    /\ \/ /\ Resuming
          /\ BeginSession(local.run) /\ StartCommand("monitor", local.run)
          /\ UNCHANGED runs
       \/ /\ ~Resuming /\ SessionStatus \notin TerminalStatuses
          /\ clock.phase = "open" /\ runs < MaxRuns
          /\ BeginSession(runs + 1) /\ StartCommand("monitor", runs + 1)
          /\ runs' = runs + 1
    /\ wrap' = "held"
    /\ UNCHANGED <<clock, rows, journal, incident, crashes>>

(* A manual rebalance takes a new run id and leaves the session alone.  It *)
(* takes the runtime lock only.                                            *)
ManualBegins ==
    /\ At("idle") /\ runs < MaxRuns
    /\ StartCommand("manual", runs + 1)
    /\ runs' = runs + 1
    /\ UNCHANGED <<clock, local, rows, journal, incident, wrap, crashes>>

(* Mutant: a retryable outcome always waits. *)
MarkAlways(status, retryable) ==
    local' = IF proc.job # "monitor" THEN local
             ELSE [local EXCEPT !.status = IF retryable THEN "retry_wait" ELSE status]

(* The status an attempt leaves behind; retryable outcomes wait for the    *)
(* next tick while the budget lasts.                                       *)
Mark(status, retryable) ==
    local' = IF proc.job # "monitor" THEN local
             ELSE [local EXCEPT !.status =
                     IF retryable /\ local.attempts < MaxRetryAttempts
                     THEN "retry_wait" ELSE status]

InWindow == proc.job = "manual" \/ clock.phase = "open"

(* Mutant: the incident file is not read. *)
GateWithoutIncident ==
    /\ At("gate")
    /\ IF InWindow THEN Go("fetch") /\ UNCHANGED <<local, wrap>>
       ELSE Mark("failed", FALSE) /\ EndCommand("failed")
    /\ UNCHANGED <<clock, rows, journal, incident, runs, crashes>>

(* assert_trading_recovery_ready, then the market window (which a manual   *)
(* command may waive).                                                     *)
Gate ==
    /\ At("gate")
    /\ IF ~incident /\ InWindow THEN Go("fetch") /\ UNCHANGED <<local, wrap>>
       ELSE Mark("failed", incident) /\ EndCommand("failed")
    /\ UNCHANGED <<clock, rows, journal, incident, runs, crashes>>

-----------------------------------------------------------------------------
(* ExecutionManager.reconcile, first thing of every command: each open row *)
(* is followed, or its entry fails and keeps its state.  Modules Reconcile *)
(* and Broker hold the detail.                                             *)

RowRefreshed(row) ==
    IF row \in {"planned", "lost"} THEN {"lost"} ELSE {"working", "unknown", "final"}

RefreshRow(k) ==
    /\ At("refresh") /\ k \in proc.todo
    /\ \E row \in RowRefreshed(rows[k]) : rows' = [rows EXCEPT ![k] = row]
    /\ proc' = [proc EXCEPT !.todo = @ \ {k}, !.assess = @ \cup {k[1]}]
    /\ UNCHANGED <<clock, local, journal, incident, wrap, runs, crashes>>

RefreshFails(k) ==
    /\ At("refresh") /\ k \in proc.todo
    /\ proc' = [proc EXCEPT !.todo = @ \ {k}, !.assess = @ \cup {k[1]}, !.err = TRUE]
    /\ UNCHANGED <<clock, local, rows, journal, incident, wrap, runs, crashes>>

FetchOpenOrders ==
    /\ At("fetch")
    /\ proc' = [proc EXCEPT !.pc = "refresh", !.todo = OpenRows]
    /\ UNCHANGED <<clock, local, rows, journal, incident, wrap, runs, crashes>>

(* IBKR cannot be reached: reconcile-orders ends with the exception, an    *)
(* attempt builds a blocked plan.                                          *)
RefreshRaises ==
    /\ At("fetch")
    /\ IF proc.job = "reconcile" THEN EndCommand("failed")
       ELSE /\ proc' = [proc EXCEPT !.pc = "plan", !.block = {"retryable"}]
            /\ UNCHANGED wrap
    /\ UNCHANGED <<clock, local, rows, journal, incident, runs, crashes>>

(* Mutant: only rows that were just followed are looked at again. *)
PendingRunsForgotten == {}

(* pending_rebalance_run_id *)
PendingRuns == IF local.status = "orders_pending" THEN {local.run} ELSE {}

(* check_stale_orders: a failed entry blocks, open rows of another run     *)
(* block without a retry.                                                  *)
StaleBlock ==
    IF proc.err THEN {"retryable"}
    ELSE IF OpenRows \subseteq RowsOf(proc.run) THEN {} ELSE {"final"}

RefreshDone ==
    /\ At("refresh") /\ proc.todo = {}
    /\ proc' = IF proc.job = "reconcile"
               THEN [proc EXCEPT !.pc = "assess",
                        !.assess = {r \in @ \cup PendingRuns : journal[r] # "none"}]
               ELSE [proc EXCEPT !.pc = "plan", !.block = StaleBlock]
    /\ UNCHANGED <<clock, local, rows, journal, incident, wrap, runs, crashes>>

-----------------------------------------------------------------------------
(* The plan is built, journalled, and executed unless something blocks it. *)

PlanRaises ==
    /\ At("plan")
    /\ \E retryable \in BOOLEAN : Mark("failed", retryable)
    /\ EndCommand("failed")
    /\ UNCHANGED <<clock, rows, journal, incident, runs, crashes>>

(* An unreadable account blocks and may be retried; a violated limit       *)
(* blocks for good.                                                        *)
PlanBlocks == SUBSET {"retryable", "final"}

PlanBlocked ==
    /\ At("plan")
    /\ \E more \in PlanBlocks :
          /\ proc.block \cup more # {}
          /\ Mark("blocked", "final" \notin proc.block \cup more)
    /\ journal' = [journal EXCEPT ![proc.run] = "saved"]
    /\ EndCommand("failed")
    /\ UNCHANGED <<clock, rows, incident, runs, crashes>>

(* Mutant: a row in doubt whose order was never sent is planned again. *)
ResubmittableLost(k) == rows[k] \in {"absent", "planned", "retry", "lost"}

Resubmittable(k) == rows[k] \in {"absent", "planned", "retry"}

(* The residual plan is any set of trades.  Every trade without a row that *)
(* may stand for a broker order gets a planned row, before one is sent.    *)
PlanMade ==
    /\ At("plan") /\ proc.block = {}
    /\ \E P \in SUBSET Trades :
          LET fresh == {t \in P : Resubmittable(<<proc.run, t>>)}
          IN  /\ rows' = [k \in Keys |-> IF k \in {proc.run} \X fresh THEN "planned" ELSE rows[k]]
              /\ proc' = [proc EXCEPT !.pc = "exec", !.todo = {proc.run} \X fresh,
                                      !.res = [t \in P \ fresh |-> "replay"]]
    /\ journal' = [journal EXCEPT ![proc.run] = "saved"]
    /\ UNCHANGED <<clock, local, incident, wrap, runs, crashes>>

(* submit_plan for one trade: its order is sent, or blocked before. *)
ExecuteTrade(k) ==
    /\ At("exec") /\ k \in proc.todo
    /\ \E kind \in FreshKinds :
          /\ \E row \in RowAfter(kind) : rows' = [rows EXCEPT ![k] = row]
          /\ proc' = [proc EXCEPT !.todo = @ \ {k},
                         !.res = [t \in DOMAIN @ \cup {k[2]} |-> IF t = k[2] THEN kind ELSE @[t]]]
    /\ UNCHANGED <<clock, local, journal, incident, wrap, runs, crashes>>

(* Rows of trades whose submission was cut short: still planned, or marked *)
(* SubmissionUnconfirmed with or without an order at the broker.           *)
CutShort(k) ==
    IF At("exec") /\ k \in proc.todo THEN {"planned", "unknown", "lost"} ELSE {rows[k]}

InterruptRows == rows' \in {f \in [Keys -> RowStates] : \A k \in Keys : f[k] \in CutShort(k)}

ExecuteRaises ==
    /\ At("exec")
    /\ InterruptRows
    /\ \E retryable \in BOOLEAN : Mark("failed", retryable)
    /\ EndCommand("failed")
    /\ UNCHANGED <<clock, journal, incident, runs, crashes>>

-----------------------------------------------------------------------------
(* The status of an executed attempt: execution_status and                 *)
(* _retryable_outcome_reason.                                              *)

Results == {proc.res[t] : t \in DOMAIN proc.res}

NoneAccepted == Results # {} /\ Results \subseteq {"retry", "contract", "issue"}

HaveIssues == ~(Results \subseteq {"replay", "working", "filled"})

ExecutionStatus ==
    IF NoneAccepted THEN "no_orders_accepted"
    ELSE IF HaveIssues THEN "completed_with_order_issues"
    ELSE IF "working" \in Results THEN "orders_pending"
    ELSE "completed"

RetryableOutcome == "retry" \in Results /\ Results \cap {"issue", "partial"} = {}

Finish ==
    /\ At("exec") /\ proc.todo = {}
    /\ Mark(ExecutionStatus, RetryableOutcome)
    /\ EndCommand("ok")
    /\ UNCHANGED <<clock, rows, journal, incident, runs, crashes>>

-----------------------------------------------------------------------------
(* reconcile-orders, after the pass: assess_rebalance of every run it      *)
(* touched and of the pending one, then the exit status.                   *)

ReconcileBegins ==
    /\ At("idle") /\ wrap = "free"
    /\ StartCommand("reconcile", 0)
    /\ wrap' = "held"
    /\ UNCHANGED <<clock, local, rows, journal, incident, runs, crashes>>

(* Mutant: a pass that found the runtime lock busy counts as a success. *)
ReconcileBusyOk ==
    /\ ~At("idle") /\ wrap = "free"
    /\ wrap' = "ok"
    /\ UNCHANGED <<clock, local, rows, journal, incident, proc, runs, crashes>>

(* A manual command holds the runtime lock: exit status 75. *)
ReconcileBusy ==
    /\ ~At("idle") /\ wrap = "free"
    /\ wrap' = "busy"
    /\ UNCHANGED <<clock, local, rows, journal, incident, proc, runs, crashes>>

Quality(run, snapshot) ==
    IF ~snapshot \/ RowsOf(run) \cap Unverified # {} THEN {"unknown"}
    ELSE IF RowsOf(run) \cap OpenRows # {} THEN {"pending"}
    ELSE {"incomplete", "target_reached"}

MarkQuality(run, quality) ==
    local' = IF local.run # run \/ local.status # "orders_pending" THEN local
             ELSE IF quality = "target_reached" THEN [local EXCEPT !.status = "completed"]
             ELSE IF quality = "incomplete"
                  THEN [local EXCEPT !.status = "completed_with_order_issues"]
             ELSE local

AssessRun(run, snapshot) ==
    /\ At("assess") /\ run \in proc.assess /\ journal[run] = "saved"
    /\ \E quality \in Quality(run, snapshot) : MarkQuality(run, quality)
    /\ proc' = [proc EXCEPT !.assess = @ \ {run}]
    /\ UNCHANGED <<clock, rows, journal, incident, wrap, runs, crashes>>

(* The planned-orders file was cut off by a crash: json.loads raises. *)
AssessRaises ==
    /\ At("assess") /\ \E run \in proc.assess : journal[run] = "torn"
    /\ EndCommand("failed")
    /\ UNCHANGED <<clock, local, rows, journal, incident, runs, crashes>>

(* Success needs every entry followed and no UNKNOWN row; with             *)
(* --verify-recovery the audit of verify_broker_recovery may still refuse. *)
ReconcileExit ==
    /\ At("assess") /\ proc.assess = {}
    /\ \E audit \in IF proc.verify THEN BOOLEAN ELSE {TRUE} :
          EndCommand(IF ~proc.err /\ Unverified = {} /\ audit THEN "ok" ELSE "failed")
    /\ UNCHANGED <<clock, local, rows, journal, incident, runs, crashes>>

(* alert_diagnostics.report keeps the incident file; the wrapper drops the *)
(* host lock even when the report fails.                                   *)
Report ==
    /\ wrap \in {"ok", "failed"}
    /\ incident' = (wrap = "failed")
    /\ wrap' = "free"
    /\ UNCHANGED <<clock, local, rows, journal, proc, runs, crashes>>

ReportNothing ==
    /\ wrap \in {"ok", "failed", "busy"}
    /\ wrap' = "free"
    /\ UNCHANGED <<clock, local, rows, journal, incident, proc, runs, crashes>>

-----------------------------------------------------------------------------
(* A container that is killed leaves its wrapper with a non-zero status; a *)
(* host that goes down takes both.  A kill while the plan is journalled    *)
(* leaves a torn file.                                                     *)

Killed ==
    /\ crashes < MaxCrashes
    /\ crashes' = crashes + 1
    /\ InterruptRows
    /\ \/ UNCHANGED journal
       \/ At("plan") /\ journal' = [journal EXCEPT ![proc.run] = "torn"]
    /\ UNCHANGED <<clock, local, incident, runs>>

ContainerKilled == ~At("idle") /\ Killed /\ EndCommand("failed")

HostDown ==
    /\ ~At("idle") \/ wrap # "free"
    /\ Killed
    /\ proc' = IdleProc /\ wrap' = "free"

(* resolve_unresolved_order.py: the only open row, UNKNOWN, with a broker  *)
(* identity and a position change that proves its fill.  It holds the      *)
(* runtime lock only.                                                      *)
OperatorResolves(k) ==
    /\ At("idle")
    /\ OpenRows = {k} /\ rows[k] = "unknown"
    /\ rows' = [rows EXCEPT ![k] = "final"]
    /\ UNCHANGED <<clock, local, journal, incident, proc, wrap, runs, crashes>>

(* The window closes, and opens again on the next trading day.  The time   *)
(* before it opens is like the evening: nothing starts.                    *)
AdvanceClock ==
    /\ \/ /\ clock.phase = "open"
          /\ clock' = [clock EXCEPT !.phase = "closed"]
       \/ /\ clock.phase = "closed" /\ clock.day < MaxDays
          /\ clock' = [day |-> clock.day + 1, phase |-> "open"]
    /\ UNCHANGED <<local, rows, journal, incident, proc, wrap, runs, crashes>>

-----------------------------------------------------------------------------
ProcessStep ==
    \/ Gate \/ FetchOpenOrders \/ RefreshRaises \/ RefreshDone
    \/ PlanRaises \/ PlanBlocked \/ PlanMade \/ ExecuteRaises \/ Finish
    \/ AssessRaises \/ ReconcileExit
    \/ \E k \in Keys : RefreshRow(k) \/ RefreshFails(k) \/ ExecuteTrade(k)
    \/ \E r \in Runs, snapshot \in BOOLEAN : AssessRun(r, snapshot)

SessionNext ==
    \/ MonitorBegins \/ ManualBegins \/ ReconcileBegins \/ ReconcileBusy
    \/ ProcessStep \/ Report \/ ReportNothing
    \/ ContainerKilled \/ HostDown \/ AdvanceClock
    \/ \E k \in Keys : OperatorResolves(k)

SessionSpec == SessionInit /\ [][SessionNext]_sessionVars

-----------------------------------------------------------------------------
(* Cron fires again and again, a command runs to its end, and the wrapper  *)
(* gives its lock back.  reconcile-orders has its own cron slots, so it is *)
(* not kept out for ever.  An outage of IBKR ends.  An order that IBKR has *)
(* seen ends, and sooner or later a pass sees it ended; sooner or later    *)
(* the account can be read.                                                *)
RowEnds(k) ==
    /\ At("refresh") /\ k \in proc.todo /\ rows[k] \in {"working", "unknown"}
    /\ RefreshRow(k) /\ rows'[k] = "final"

SessionFairness ==
    /\ WF_sessionVars(ProcessStep) /\ WF_sessionVars(Report \/ ReportNothing)
    /\ SF_sessionVars(ReconcileBegins)
    /\ SF_sessionVars(FetchOpenOrders /\ proc.job = "reconcile")
    /\ \A k \in Keys : SF_sessionVars(RowEnds(k))
    /\ \A r \in Runs : SF_sessionVars(AssessRun(r, TRUE))

FairSessionSpec == SessionSpec /\ SessionFairness

-----------------------------------------------------------------------------
(* Properties. *)

ResultTypes == UNION {[P -> FreshKinds \cup {"replay"}] : P \in SUBSET Trades}

ProcType ==
    [pc : {"idle", "gate", "fetch", "refresh", "plan", "exec", "assess"},
     job : {"none", "monitor", "manual", "reconcile"}, run : 0..MaxRuns,
     todo : SUBSET Keys, err : BOOLEAN, block : SUBSET {"retryable", "final"},
     res : ResultTypes,
     assess : SUBSET Runs, verify : BOOLEAN]

LocalType ==
    [day : 0..MaxDays, run : 0..MaxRuns,
     status : {"none", "running", "retry_wait"} \cup TerminalStatuses, attempts : Nat]

SessionTypeOK ==
    /\ clock \in [day : 1..MaxDays, phase : {"open", "closed"}]
    /\ local \in LocalType
    /\ rows \in [Keys -> RowStates]
    /\ journal \in [Runs -> {"none", "torn", "saved"}]
    /\ incident \in BOOLEAN
    /\ proc \in ProcType
    /\ wrap \in {"free", "held", "ok", "failed", "busy"}
    /\ runs \in 0..MaxRuns /\ crashes \in 0..MaxCrashes

(* The retry budget: an attempt beyond it is possible only when an earlier *)
(* one was killed while its session was marked running.                    *)
RetriesBounded ==
    /\ local.attempts <= MaxRetryAttempts + crashes
    /\ local.status = "retry_wait" => local.attempts < MaxRetryAttempts
    /\ local.status = "running" /\ proc.job # "monitor"
         => local.attempts < MaxRetryAttempts + crashes

(* A session that waits for fills can be closed: the file that assesses it *)
(* is there and whole.                                                     *)
PendingIsAssessable ==
    local.status = "orders_pending" => local.run \in Runs /\ journal[local.run] = "saved"

(* The session file and the running attempt agree; only monitor and        *)
(* reconcile-orders run under the wrapper's lock.                          *)
AttemptInv ==
    /\ proc.job = "monitor" => wrap = "held" /\ local.status = "running" /\ local.run = proc.run
    /\ proc.job = "reconcile" => wrap = "held"
    /\ wrap = "held" => proc.job \in {"monitor", "reconcile"}
    /\ proc.job \in {"monitor", "manual"} => proc.run \in Runs /\ proc.run <= runs
    /\ At("exec") => journal[proc.run] = "saved"
    /\ At("idle") <=> proc.job = "none"
    /\ proc.pc \in {"gate", "plan", "exec"} => proc.job \in {"monitor", "manual"}
    /\ At("assess") => proc.job = "reconcile"
    /\ local.run <= runs /\ (local.status # "none" => local.run \in Runs)
    /\ proc.job = "manual" => proc.run # local.run

(* The session file, the journal and the locks stay consistent through     *)
(* retries, kills and host failures (state.py, cli.py monitor, journal.py, *)
(* run_logged.sh).                                                         *)
SessionInv == SessionTypeOK /\ RetriesBounded /\ PendingIsAssessable /\ AttemptInv

(* No scheduled attempt plans or sends orders while the reconcile incident *)
(* is active: the gate is read once, at the start, and the host lock keeps *)
(* the answer true until the attempt ends (recovery_readiness.py,          *)
(* run_logged.sh).                                                         *)
NoOrderDuringIncident ==
    proc.job = "monitor" /\ proc.pc \in {"fetch", "refresh", "plan", "exec"} => ~incident

(* The incident ends only when no order of the ledger is unverified or     *)
(* still to be looked at, whichever command ran between the audit and its  *)
(* report (cli.py reconcile_orders, run_logged.sh, alert_diagnostics.py).  *)
IncidentEndsResolved ==
    [][incident /\ ~incident' => \A k \in Keys : rows[k] \notin {"planned", "unknown", "lost"}]_sessionVars

(* Within a day the session keeps one run id, so that every retry replays  *)
(* the same orderRefs, never loses count of its attempts, and never leaves *)
(* a terminal status except to settle pending orders (state.py, cli.py     *)
(* monitor and reconcile_orders).                                          *)
SessionIsStable ==
    [][local.day # 0 /\ local'.day = local.day =>
         /\ local'.run = local.run
         /\ local'.attempts >= local.attempts
         /\ local.status \in TerminalStatuses /\ local'.status # local.status
              => /\ local.status = "orders_pending"
                 /\ local'.status \in {"completed", "completed_with_order_issues"}]_sessionVars

(* The rows that the attempt at work has planned and not sent yet. *)
Sending == IF At("exec") THEN proc.todo ELSE {}

R == INSTANCE OrderRows WITH batch <- Sending

(* What a command does to the ledger is what OrderRows allows, the         *)
(* abstract specification that ExecutionManager implements in detail: the  *)
(* rows of an attempt are planned before one is sent, a killed attempt     *)
(* leaves only those rows in doubt, and nothing but evidence moves a row   *)
(* that may stand for an order (cli.py, engine.py).                        *)
SessionFollowsRows == R!RowsSpec

(* Pending orders are settled: a session in orders_pending is assessed and *)
(* closed once its orders end, also when the pass that saw the last fill   *)
(* could not read the account or was killed - unless a row stands for an   *)
(* order that was never sent (state.py pending_rebalance_run_id, cli.py    *)
(* reconcile_orders).                                                      *)
PendingIsSettled ==
    local.status = "orders_pending"
      ~> (local.status # "orders_pending" \/ \E k \in Keys : rows[k] = "lost")

=============================================================================
