---------------------------- MODULE SessionProofs ----------------------------
(***************************************************************************)
(* Proofs about Session, for every set of trades, every number of runs,    *)
(* days, kills and host failures, and every retry budget.                  *)
(***************************************************************************)
EXTENDS Session, TLAPS

USE SessionAssumption

(* The empty result function is well typed. *)
LEMMA IdleType == IdleProc \in ProcType
<1>1. [t \in {} |-> "replay"] \in [{} -> FreshKinds \cup {"replay"}]
  OBVIOUS
<1>2. [t \in {} |-> "replay"] \in ResultTypes
  BY <1>1 DEF ResultTypes
<1> QED
  BY <1>2 DEF IdleProc, ProcType

(* A command that starts is well typed. *)
LEMMA StartType ==
    ASSUME NEW pc \in {"gate", "fetch"}, NEW job \in {"monitor", "manual", "reconcile"},
           NEW run \in 0..MaxRuns, NEW verify \in BOOLEAN
    PROVE  [IdleProc EXCEPT !.pc = pc, !.job = job, !.run = run, !.verify = verify] \in ProcType
BY IdleType DEF ProcType

(* Nothing has run yet. *)
LEMMA InitInv == SessionInit => SessionInv
<1> SUFFICES ASSUME SessionInit PROVE SessionInv
  OBVIOUS
<1>a. incident \in BOOLEAN
  BY DEF SessionInit
<1>b. clock \in [day : 1..MaxDays, phase : {"open", "closed"}]
  BY DEF SessionInit
<1>c. rows \in [Keys -> RowStates] /\ journal \in [Runs -> {"none", "torn", "saved"}]
  BY DEF SessionInit, RowStates
<1>d. local \in LocalType
  BY DEF SessionInit, NoSession, LocalType
<1>e. runs \in 0..MaxRuns /\ crashes \in 0..MaxCrashes
  BY DEF SessionInit
<1>f. proc \in ProcType /\ wrap \in {"free", "held", "ok", "failed", "busy"}
  BY IdleType DEF SessionInit
<1>1. SessionTypeOK
  BY <1>a, <1>b, <1>c, <1>d, <1>e, <1>f DEF SessionTypeOK
<1>2. RetriesBounded /\ PendingIsAssessable
  BY DEF SessionInit, RetriesBounded, PendingIsAssessable, NoSession, IdleProc
<1>3. AttemptInv
  BY DEF SessionInit, AttemptInv, NoSession, IdleProc, At
<1> QED
  BY <1>1, <1>2, <1>3 DEF SessionInv

(* EndCommand leaves no command behind. *)
LEMMA Ended ==
    ASSUME NEW result \in {"ok", "failed"}, SessionInv, EndCommand(result), ~At("idle")
    PROVE  /\ proc' = IdleProc
           /\ wrap' \in {"free", "ok", "failed", "busy"}
BY DEF EndCommand, SessionInv, SessionTypeOK, AttemptInv, ProcType, At

(* An attempt that ends marks its session within the budget. *)
LEMMA Marked ==
    ASSUME NEW status \in TerminalStatuses, NEW retryable \in BOOLEAN,
           SessionInv, Mark(status, retryable)
    PROVE  /\ local' \in LocalType
           /\ local'.run = local.run /\ local'.attempts = local.attempts
           /\ local'.day = local.day
           /\ proc.job # "monitor" => local' = local
           /\ proc.job = "monitor" => local'.status \in {"retry_wait", status}
           /\ local'.status = "retry_wait" => local'.attempts < MaxRetryAttempts
BY DEF SessionInv, SessionTypeOK, LocalType, RetriesBounded, Mark, TerminalStatuses

-----------------------------------------------------------------------------
(* Steps of the running command that leave it running. *)
LEMMA ContinueStep ==
    ASSUME SessionInv, proc' \in ProcType,
           proc'.job = proc.job, proc'.run = proc.run, ~At("idle"), proc'.pc # "idle",
           proc'.pc \in {"gate", "plan", "exec"} => proc.job \in {"monitor", "manual"},
           proc'.pc = "assess" => proc.job = "reconcile",
           proc'.pc = "exec" => journal'[proc.run] = "saved",
           journal' = journal \/ journal' = [journal EXCEPT ![proc.run] = "saved"],
           proc.pc \in {"fetch", "refresh", "assess"} => journal' = journal,
           rows' \in [Keys -> RowStates],
           UNCHANGED <<clock, local, incident, wrap, runs, crashes>>
    PROVE  SessionInv'
<1>1. SessionTypeOK'
  BY DEF SessionInv, SessionTypeOK
<1>2. RetriesBounded'
  BY DEF SessionInv, RetriesBounded
<1>3. PendingIsAssessable'
  BY DEF SessionInv, SessionTypeOK, PendingIsAssessable
<1>4. AttemptInv'
  BY DEF SessionInv, AttemptInv, At
<1> QED
  BY <1>1, <1>2, <1>3, <1>4 DEF SessionInv

(* Steps that end the running command. *)
LEMMA EndStep ==
    ASSUME SessionInv, ~At("idle"),
           NEW result \in {"ok", "failed"}, EndCommand(result),
           local' \in LocalType, local'.run = local.run, local'.attempts = local.attempts,
           proc.job # "monitor" => local'.status = local.status,
           proc.job = "monitor" => local'.status # "running",
           local'.status = "retry_wait" => local'.attempts < MaxRetryAttempts,
           local'.status = "orders_pending" =>
             journal'[local.run] = "saved" /\ local.run \in Runs,
           rows' \in [Keys -> RowStates], journal' \in [Runs -> {"none", "torn", "saved"}],
           UNCHANGED <<clock, incident, runs, crashes>>
    PROVE  SessionInv'
<1>0. proc' = IdleProc /\ wrap' \in {"free", "ok", "failed", "busy"}
  BY Ended
<1>1. SessionTypeOK'
  BY <1>0, IdleType DEF SessionInv, SessionTypeOK
<1>2. RetriesBounded'
  BY <1>0 DEF SessionInv, SessionTypeOK, LocalType, RetriesBounded, IdleProc, AttemptInv
<1>3. PendingIsAssessable'
  BY DEF SessionInv, PendingIsAssessable
<1>4. AttemptInv'
  BY <1>0 DEF SessionInv, AttemptInv, At, IdleProc
<1> QED
  BY <1>1, <1>2, <1>3, <1>4 DEF SessionInv

-----------------------------------------------------------------------------
(* One lemma per group of actions. *)

(* monitor resumes its session or mints the next run id. *)
LEMMA MonitorInv == SessionInv /\ MonitorBegins => SessionInv'
<1> SUFFICES ASSUME SessionInv, MonitorBegins PROVE SessionInv'
  OBVIOUS
<1>1. PICK r \in Runs : /\ BeginSession(r) /\ StartCommand("monitor", r)
                        /\ r <= runs' /\ runs' \in 0..MaxRuns
                        /\ \/ Resuming /\ r = local.run
                           \/ r = runs + 1
  <2>1. CASE Resuming /\ BeginSession(local.run) /\ StartCommand("monitor", local.run) /\ UNCHANGED runs
    <3>1. local.run \in Runs /\ local.run <= runs
      BY <2>1 DEF SessionInv, AttemptInv, Resuming, SessionStatus
    <3> QED
      BY <2>1, <3>1 DEF SessionInv, SessionTypeOK
  <2>2. CASE runs < MaxRuns /\ BeginSession(runs + 1) /\ StartCommand("monitor", runs + 1) /\ runs' = runs + 1
    <3>1. runs + 1 \in Runs
      BY <2>2 DEF SessionInv, SessionTypeOK, Runs
    <3> QED
      BY <2>2, <3>1 DEF SessionInv, SessionTypeOK, Runs
  <2> QED
    BY <2>1, <2>2 DEF MonitorBegins
<1>2. At("idle") /\ wrap' = "held" /\ UNCHANGED <<clock, rows, journal, incident, crashes>>
  BY DEF MonitorBegins
<1>3. proc' = [IdleProc EXCEPT !.pc = "gate", !.job = "monitor", !.run = r, !.verify = FALSE]
  BY <1>1 DEF StartCommand
<1>4. proc' \in ProcType
  <2>1. r \in 0..MaxRuns
    BY DEF Runs
  <2> QED
    BY <1>3, <2>1, StartType
<1>5. /\ local'.run = r /\ local'.status = "running" /\ local'.day = clock.day
      /\ local'.attempts = IF local.day = clock.day /\ local.run = r
                           THEN local.attempts + 1 ELSE 1
      /\ local' \in LocalType
  BY <1>1 DEF BeginSession, LocalType, SessionInv, SessionTypeOK, Runs
<1>6. SessionTypeOK'
  BY <1>1, <1>2, <1>4, <1>5 DEF SessionInv, SessionTypeOK
<1>7. local.day = clock.day /\ local.run = r =>
        local.status \in {"running", "retry_wait"}
  BY <1>1 DEF Resuming, SessionStatus, SessionInv, SessionTypeOK, AttemptInv, LocalType
<1>8. local'.attempts <= MaxRetryAttempts + crashes
  <2>1. proc.job = "none"
    BY <1>2 DEF SessionInv, AttemptInv
  <2>2. local.attempts \in Nat /\ crashes \in Nat
    BY DEF SessionInv, SessionTypeOK, LocalType
  <2> QED
    BY <1>5, <1>7, <2>1, <2>2 DEF SessionInv, RetriesBounded
<1>9. RetriesBounded'
  BY <1>2, <1>3, <1>5, <1>8 DEF RetriesBounded, IdleProc
<1>10. PendingIsAssessable'
  BY <1>5 DEF PendingIsAssessable
<1>11. AttemptInv'
  BY <1>1, <1>2, <1>3, <1>5 DEF AttemptInv, At, IdleProc
<1> QED
  BY <1>6, <1>9, <1>10, <1>11 DEF SessionInv

(* A manual rebalance never takes the run id of the session. *)
LEMMA ManualInv == SessionInv /\ ManualBegins => SessionInv'
<1> SUFFICES ASSUME SessionInv, ManualBegins PROVE SessionInv'
  OBVIOUS
<1>0. proc' = [IdleProc EXCEPT !.pc = "gate", !.job = "manual", !.run = runs + 1, !.verify = FALSE]
  BY DEF ManualBegins, StartCommand
<1>1. /\ proc' = [IdleProc EXCEPT !.pc = "gate", !.job = "manual", !.run = runs + 1, !.verify = FALSE]
      /\ runs' = runs + 1 /\ runs + 1 \in Runs /\ runs \in Nat
      /\ UNCHANGED <<clock, local, rows, journal, incident, wrap, crashes>>
  BY <1>0 DEF ManualBegins, SessionInv, SessionTypeOK, Runs
<1>2. proc' \in ProcType
  <2>1. runs + 1 \in 0..MaxRuns
    BY <1>1 DEF Runs
  <2> QED
    BY <1>1, <2>1, StartType
<1>3. SessionTypeOK'
  BY <1>1, <1>2 DEF SessionInv, SessionTypeOK, Runs
<1>4. At("idle")
  BY DEF ManualBegins
<1>5. RetriesBounded' /\ PendingIsAssessable'
  BY <1>1, <1>4 DEF SessionInv, RetriesBounded, PendingIsAssessable, AttemptInv, IdleProc, At
<1>6. AttemptInv'
  BY <1>1, <1>4 DEF SessionInv, SessionTypeOK, LocalType, AttemptInv, IdleProc, At
<1> QED
  BY <1>3, <1>5, <1>6 DEF SessionInv

(* A pass starts only under the wrapper's lock. *)
LEMMA ReconcileBeginsInv == SessionInv /\ ReconcileBegins => SessionInv'
<1> SUFFICES ASSUME SessionInv, ReconcileBegins PROVE SessionInv'
  OBVIOUS
<1>0. incident \in BOOLEAN
  BY DEF SessionInv, SessionTypeOK
<1>1. /\ proc' = [IdleProc EXCEPT !.pc = "fetch", !.job = "reconcile", !.run = 0, !.verify = incident]
      /\ wrap' = "held" /\ At("idle")
      /\ UNCHANGED <<clock, local, rows, journal, incident, runs, crashes>>
  BY <1>0 DEF ReconcileBegins, StartCommand
<1>2. proc' \in ProcType
  <2>1. 0 \in 0..MaxRuns
    OBVIOUS
  <2> QED
    BY <1>0, <1>1, <2>1, StartType, Zenon
<1>3. SessionTypeOK'
  BY <1>1, <1>2 DEF SessionInv, SessionTypeOK
<1>5. RetriesBounded' /\ PendingIsAssessable'
  BY <1>1 DEF SessionInv, RetriesBounded, PendingIsAssessable, AttemptInv, IdleProc, At
<1>6. AttemptInv'
  BY <1>1 DEF SessionInv, AttemptInv, IdleProc, At
<1> QED
  BY <1>3, <1>5, <1>6 DEF SessionInv

(* The wrapper's own steps, the operator's and the clock's. *)
LEMMA OutsideInv ==
    ASSUME SessionInv, ReconcileBusy \/ Report \/ ReportNothing \/ AdvanceClock
                       \/ \E k \in Keys : OperatorResolves(k)
    PROVE  SessionInv'
<1>1. UNCHANGED <<local, journal, proc, runs, crashes>>
  BY DEF ReconcileBusy, Report, ReportNothing, AdvanceClock, OperatorResolves
<1>2. incident' \in BOOLEAN
  BY Zenon DEF ReconcileBusy, Report, ReportNothing, AdvanceClock, OperatorResolves, SessionInv, SessionTypeOK
<1>3. clock' \in [day : 1..MaxDays, phase : {"open", "closed"}]
  BY DEF ReconcileBusy, Report, ReportNothing, AdvanceClock, OperatorResolves, SessionInv, SessionTypeOK
<1>4. rows' \in [Keys -> RowStates]
  BY DEF ReconcileBusy, Report, ReportNothing, AdvanceClock, OperatorResolves, SessionInv, SessionTypeOK, RowStates
<1>5. wrap' = wrap \/ (wrap # "held" /\ wrap' \in {"free", "busy"})
  BY DEF ReconcileBusy, Report, ReportNothing, AdvanceClock, OperatorResolves
<1>6. SessionTypeOK'
  BY <1>1, <1>2, <1>3, <1>4, <1>5 DEF SessionInv, SessionTypeOK
<1>7. RetriesBounded' /\ PendingIsAssessable' /\ AttemptInv'
  BY <1>1, <1>5 DEF SessionInv, RetriesBounded, PendingIsAssessable, AttemptInv, At
<1> QED
  BY <1>6, <1>7 DEF SessionInv

(* Steps of a command that goes on. *)
LEMMA GoesOnInv ==
    ASSUME SessionInv,
           \/ FetchOpenOrders \/ RefreshDone \/ PlanMade
           \/ \E k \in Keys : RefreshRow(k) \/ RefreshFails(k) \/ ExecuteTrade(k)
    PROVE  SessionInv'
<1> USE DEF At
<1>0. proc \in ProcType /\ rows \in [Keys -> RowStates] /\ journal \in [Runs -> {"none", "torn", "saved"}]
  BY DEF SessionInv, SessionTypeOK
<1>1. CASE FetchOpenOrders
  <2>1. proc' \in ProcType
    BY <1>0, <1>1 DEF FetchOpenOrders, ProcType, OpenRows
  <2> QED
    BY <1>0, <1>1, <2>1, ContinueStep DEF FetchOpenOrders, ProcType, SessionInv, AttemptInv
<1>2. CASE RefreshDone
  <2>1. PendingRuns \subseteq Runs
    BY DEF PendingRuns, SessionInv, PendingIsAssessable
  <2>2. StaleBlock \subseteq {"retryable", "final"}
    BY DEF StaleBlock
  <2>3. proc' \in ProcType
    BY <1>0, <1>2, <2>1, <2>2 DEF RefreshDone, ProcType
  <2> QED
    BY <1>0, <1>2, <2>3, ContinueStep, ZenonT(40) DEF RefreshDone, ProcType, SessionInv, AttemptInv
<1>3. CASE PlanMade
  <2>1. PICK P \in SUBSET Trades :
          LET fresh == {t \in P : Resubmittable(<<proc.run, t>>)}
          IN  /\ rows' = [k \in Keys |-> IF k \in {proc.run} \X fresh THEN "planned" ELSE rows[k]]
              /\ proc' = [proc EXCEPT !.pc = "exec", !.todo = {proc.run} \X fresh,
                                      !.res = [t \in P \ fresh |-> "replay"]]
    BY <1>3 DEF PlanMade
  <2> DEFINE F == {t \in P : Resubmittable(<<proc.run, t>>)}
  <2>2. proc.job \in {"monitor", "manual"} /\ proc.run \in Runs
    BY <1>3 DEF PlanMade, SessionInv, AttemptInv
  <2>3. {proc.run} \X F \in SUBSET Keys
    BY <2>2 DEF Keys
  <2>4. [t \in P \ F |-> "replay"] \in ResultTypes
    <3>1. [t \in P \ F |-> "replay"] \in [P \ F -> FreshKinds \cup {"replay"}]
      OBVIOUS
    <3>2. P \ F \in SUBSET Trades
      OBVIOUS
    <3> QED
      BY <3>1, <3>2 DEF ResultTypes
  <2>5. proc' = [proc EXCEPT !.pc = "exec", !.todo = {proc.run} \X F, !.res = [t \in P \ F |-> "replay"]]
    BY <2>1
  <2>6. rows' \in [Keys -> RowStates]
    BY <1>0, <2>1 DEF RowStates
  <2> HIDE DEF F
  <2>7. proc' \in ProcType
    BY <1>0, <2>3, <2>4, <2>5 DEF ProcType
  <2>8. proc'.pc = "exec" /\ proc'.job = proc.job /\ proc'.run = proc.run
    BY <1>0, <2>5 DEF ProcType
  <2>9. /\ proc.pc = "plan" /\ journal' = [journal EXCEPT ![proc.run] = "saved"]
        /\ UNCHANGED <<clock, local, incident, wrap, runs, crashes>>
    BY <1>3 DEF PlanMade
  <2>10. journal'[proc.run] = "saved"
    BY <1>0, <2>2, <2>9
  <2> QED
    BY <2>2, <2>6, <2>7, <2>8, <2>9, <2>10, ContinueStep
<1>4. ASSUME NEW k \in Keys, RefreshRow(k) \/ RefreshFails(k)
      PROVE  SessionInv'
  <2>1. k[1] \in Runs
    BY DEF Keys
  <2>2. proc' \in ProcType
    <3>1. CASE RefreshRow(k)
      BY <1>0, <2>1, <3>1 DEF RefreshRow, ProcType
    <3>2. CASE RefreshFails(k)
      BY <1>0, <2>1, <3>2 DEF RefreshFails, ProcType
    <3> QED
      BY <1>4, <3>1, <3>2
  <2>3. rows' \in [Keys -> RowStates]
    BY <1>0, <1>4 DEF RefreshRow, RefreshFails, RowRefreshed, RowStates
  <2> QED
    BY <1>0, <1>4, <2>2, <2>3, ContinueStep, ZenonT(40) DEF RefreshRow, RefreshFails, ProcType
<1>5. ASSUME NEW k \in Keys, ExecuteTrade(k)
      PROVE  SessionInv'
  <2>1. PICK kind \in FreshKinds :
          /\ \E row \in RowAfter(kind) : rows' = [rows EXCEPT ![k] = row]
          /\ proc' = [proc EXCEPT !.todo = @ \ {k},
                         !.res = [t \in DOMAIN proc.res \cup {k[2]} |-> IF t = k[2] THEN kind ELSE proc.res[t]]]
    BY <1>5 DEF ExecuteTrade
  <2> DEFINE results == [t \in DOMAIN proc.res \cup {k[2]} |-> IF t = k[2] THEN kind ELSE proc.res[t]]
  <2>2. results \in ResultTypes
    <3>1. PICK P \in SUBSET Trades : proc.res \in [P -> FreshKinds \cup {"replay"}]
      <4>1. proc.res \in ResultTypes
        BY <1>0 DEF ProcType
      <4> QED
        BY <4>1 DEF ResultTypes
    <3>2. P \cup {k[2]} \in SUBSET Trades
      BY DEF Keys
    <3>3. results \in [P \cup {k[2]} -> FreshKinds \cup {"replay"}]
      BY <3>1
    <3> QED
      BY <3>2, <3>3 DEF ResultTypes
  <2>3. proc' = [proc EXCEPT !.todo = @ \ {k}, !.res = results]
    BY <2>1
  <2> HIDE DEF results
  <2>4. proc' \in ProcType
    BY <1>0, <2>2, <2>3 DEF ProcType
  <2>5. rows' \in [Keys -> RowStates]
    BY <1>0, <2>1 DEF RowAfter, RowStates, FreshKinds
  <2> QED
    BY <1>0, <1>5, <2>3, <2>4, <2>5, ContinueStep, ZenonT(40) DEF ExecuteTrade, ProcType, SessionInv, AttemptInv
<1> QED
  BY <1>1, <1>2, <1>3, <1>4, <1>5

(* reconcile-orders settles the session, or goes on to the next run. *)
LEMMA AssessInv ==
    ASSUME SessionInv, NEW r \in Runs, NEW snapshot \in BOOLEAN, AssessRun(r, snapshot)
    PROVE  SessionInv'
<1>1. PICK quality : MarkQuality(r, quality)
  BY DEF AssessRun
<1>2. /\ local' \in LocalType /\ local'.run = local.run /\ local'.attempts = local.attempts
      /\ \/ local'.status = local.status
         \/ /\ local.status = "orders_pending"
            /\ local'.status \in {"completed", "completed_with_order_issues"}
  <2>1. local \in LocalType
    BY DEF SessionInv, SessionTypeOK
  <2>2. CASE local' = local
    BY <2>1, <2>2 DEF LocalType
  <2>3. ASSUME NEW st \in {"completed", "completed_with_order_issues"},
               local.status = "orders_pending", local' = [local EXCEPT !.status = st]
        PROVE  /\ local' \in LocalType /\ local'.run = local.run
               /\ local'.attempts = local.attempts /\ local'.status = st
    BY <2>1, <2>3 DEF LocalType, TerminalStatuses
  <2>4. \/ local' = local
        \/ local.status = "orders_pending" /\ local' = [local EXCEPT !.status = "completed"]
        \/ local.status = "orders_pending" /\ local' = [local EXCEPT !.status = "completed_with_order_issues"]
    BY <1>1, Zenon DEF MarkQuality
  <2> QED
    BY <2>2, <2>3, <2>4
<1>3. /\ proc' = [proc EXCEPT !.assess = @ \ {r}] /\ At("assess")
      /\ UNCHANGED <<clock, rows, journal, incident, wrap, runs, crashes>>
  BY DEF AssessRun
<1>4. proc' \in ProcType /\ proc'.pc = proc.pc /\ proc'.job = proc.job /\ proc'.run = proc.run
  BY <1>3 DEF SessionInv, SessionTypeOK, ProcType
<1>5. SessionTypeOK'
  BY <1>2, <1>3, <1>4 DEF SessionInv, SessionTypeOK
<1>6. RetriesBounded' /\ PendingIsAssessable'
  BY <1>2, <1>3, <1>4 DEF SessionInv, RetriesBounded, PendingIsAssessable
<1>7. AttemptInv'
  BY <1>2, <1>3, <1>4 DEF SessionInv, AttemptInv, At
<1> QED
  BY <1>5, <1>6, <1>7 DEF SessionInv

(* Steps that end an attempt and mark its session. *)
LEMMA MarkedEnd ==
    ASSUME SessionInv, ~At("idle"), NEW status \in TerminalStatuses, NEW retryable \in BOOLEAN,
           Mark(status, retryable), NEW result \in {"ok", "failed"}, EndCommand(result),
           rows' \in [Keys -> RowStates],
           journal' = journal \/ journal' = [journal EXCEPT ![proc.run] = "saved"],
           proc.job \in {"monitor", "manual"},
           status = "orders_pending" => journal[proc.run] = "saved",
           UNCHANGED <<clock, incident, runs, crashes>>
    PROVE  SessionInv'
<1>1. /\ local' \in LocalType /\ local'.run = local.run /\ local'.attempts = local.attempts
      /\ proc.job # "monitor" => local' = local
      /\ proc.job = "monitor" => local'.status \in {"retry_wait", status}
      /\ local'.status = "retry_wait" => local'.attempts < MaxRetryAttempts
  BY Marked
<1>2. proc.run \in Runs /\ journal' \in [Runs -> {"none", "torn", "saved"}]
  BY DEF SessionInv, SessionTypeOK, AttemptInv
<1>3. local'.status = "orders_pending" => journal'[local.run] = "saved" /\ local.run \in Runs
  BY <1>1, <1>2 DEF SessionInv, SessionTypeOK, PendingIsAssessable, AttemptInv
<1>4. proc.job = "monitor" => local'.status # "running"
  BY <1>1 DEF TerminalStatuses
<1> QED
  BY <1>1, <1>2, <1>3, <1>4, EndStep

(* The ways an attempt ends: raised, blocked, finished. *)
LEMMA EndsInv ==
    ASSUME SessionInv,
           PlanRaises \/ PlanBlocked \/ ExecuteRaises \/ Finish \/ AssessRaises \/ ReconcileExit
    PROVE  SessionInv'
<1> USE DEF At
<1>0. /\ proc \in ProcType /\ rows \in [Keys -> RowStates] /\ journal \in [Runs -> {"none", "torn", "saved"}]
      /\ local \in LocalType
  BY DEF SessionInv, SessionTypeOK
<1>1. CASE PlanRaises
  BY <1>0, <1>1, MarkedEnd DEF PlanRaises, TerminalStatuses, SessionInv, AttemptInv
<1>2. CASE PlanBlocked
  <2>1. PICK more \in PlanBlocks : Mark("blocked", "final" \notin proc.block \cup more)
    BY <1>2 DEF PlanBlocked
  <2>2. ("final" \notin proc.block \cup more) \in BOOLEAN
    OBVIOUS
  <2> QED
    BY <1>0, <1>2, <2>1, <2>2, MarkedEnd DEF PlanBlocked, TerminalStatuses, SessionInv, AttemptInv
<1>3. CASE ExecuteRaises
  <2>1. rows' \in [Keys -> RowStates]
    BY <1>3 DEF ExecuteRaises, InterruptRows
  <2> QED
    BY <1>0, <1>3, <2>1, MarkedEnd DEF ExecuteRaises, TerminalStatuses, SessionInv, AttemptInv
<1>4. CASE Finish
  <2>1. ExecutionStatus \in TerminalStatuses /\ RetryableOutcome \in BOOLEAN
    BY DEF ExecutionStatus, RetryableOutcome, TerminalStatuses
  <2>2. journal[proc.run] = "saved" /\ proc.job \in {"monitor", "manual"}
    BY <1>4 DEF Finish, SessionInv, AttemptInv
  <2> QED
    BY <1>0, <1>4, <2>1, <2>2, MarkedEnd DEF Finish
<1>5. CASE AssessRaises \/ ReconcileExit
  <2>1. PICK result \in {"ok", "failed"} : EndCommand(result)
    BY <1>5, Zenon DEF AssessRaises, ReconcileExit
  <2>2. proc.pc = "assess" /\ UNCHANGED <<clock, local, rows, journal, incident, runs, crashes>>
    BY <1>5 DEF AssessRaises, ReconcileExit
  <2>3. proc.job = "reconcile"
    BY <2>2 DEF SessionInv, AttemptInv
  <2> QED
    BY <1>0, <2>1, <2>2, <2>3, EndStep DEF SessionInv, RetriesBounded, PendingIsAssessable
<1> QED
  BY <1>1, <1>2, <1>3, <1>4, <1>5

(* The gate and an unreachable broker end a command or let it go on. *)
LEMMA GateInv == SessionInv /\ (Gate \/ RefreshRaises) => SessionInv'
<1> SUFFICES ASSUME SessionInv, Gate \/ RefreshRaises PROVE SessionInv'
  OBVIOUS
<1> USE DEF At
<1>0. /\ proc \in ProcType /\ rows \in [Keys -> RowStates] /\ journal \in [Runs -> {"none", "torn", "saved"}]
      /\ local \in LocalType
  BY DEF SessionInv, SessionTypeOK
<1>1. CASE proc' = [proc EXCEPT !.pc = "fetch"] /\ proc.pc = "gate"
           /\ UNCHANGED <<clock, local, rows, journal, incident, wrap, runs, crashes>>
  <2>1. proc' \in ProcType /\ proc'.pc = "fetch" /\ proc'.job = proc.job /\ proc'.run = proc.run
    BY <1>0, <1>1 DEF ProcType
  <2> QED
    BY <1>0, <1>1, <2>1, ContinueStep
<1>2. CASE /\ proc' = [proc EXCEPT !.pc = "plan", !.block = {"retryable"}]
           /\ proc.pc = "fetch" /\ proc.job # "reconcile"
           /\ UNCHANGED <<clock, local, rows, journal, incident, wrap, runs, crashes>>
  <2>1. proc' \in ProcType /\ proc'.pc = "plan" /\ proc'.job = proc.job /\ proc'.run = proc.run
    BY <1>0, <1>2 DEF ProcType
  <2>2. proc.job \in {"monitor", "manual"}
    BY <1>0, <1>2 DEF ProcType, SessionInv, AttemptInv
  <2> QED
    BY <1>0, <1>2, <2>1, <2>2, ContinueStep
<1>3. CASE /\ proc.pc = "gate" /\ Mark("failed", incident) /\ EndCommand("failed")
           /\ UNCHANGED <<clock, rows, journal, incident, runs, crashes>>
  <2>1. incident \in BOOLEAN /\ proc.job \in {"monitor", "manual"} /\ "failed" \in TerminalStatuses
    BY <1>3 DEF SessionInv, SessionTypeOK, AttemptInv, TerminalStatuses
  <2> QED
    BY <1>0, <1>3, <2>1, MarkedEnd, Zenon
<1>4. CASE /\ proc.pc = "fetch" /\ proc.job = "reconcile" /\ EndCommand("failed")
           /\ UNCHANGED <<clock, local, rows, journal, incident, runs, crashes>>
  BY <1>0, <1>4, EndStep DEF SessionInv, RetriesBounded, PendingIsAssessable
<1> QED
  BY <1>1, <1>2, <1>3, <1>4, Zenon DEF Gate, RefreshRaises, Go

(* A kill takes the command with it, wherever it stands. *)
LEMMA KilledInv == SessionInv /\ (ContainerKilled \/ HostDown) => SessionInv'
<1> SUFFICES ASSUME SessionInv, ContainerKilled \/ HostDown PROVE SessionInv'
  OBVIOUS
<1>1. Killed /\ proc' = IdleProc /\ wrap' \in {"free", "ok", "failed", "busy"}
  <2>1. CASE ContainerKilled
    BY <2>1, Ended DEF ContainerKilled
  <2>2. CASE HostDown
    BY <2>2 DEF HostDown
  <2> QED
    BY <2>1, <2>2
<1>2. /\ crashes' = crashes + 1 /\ crashes' \in 0..MaxCrashes /\ crashes \in Nat
      /\ UNCHANGED <<clock, local, incident, runs>> /\ rows' \in [Keys -> RowStates]
  BY <1>1 DEF Killed, InterruptRows, SessionInv, SessionTypeOK
<1>3. /\ journal' \in [Runs -> {"none", "torn", "saved"}]
      /\ local.status = "orders_pending" => journal'[local.run] = journal[local.run]
  BY <1>1 DEF Killed, At, SessionInv, SessionTypeOK, AttemptInv, PendingIsAssessable
<1>4. SessionTypeOK'
  BY <1>1, <1>2, <1>3, IdleType DEF SessionInv, SessionTypeOK
<1>5. RetriesBounded'
  BY <1>1, <1>2 DEF SessionInv, SessionTypeOK, LocalType, RetriesBounded
<1>6. PendingIsAssessable'
  BY <1>2, <1>3 DEF SessionInv, PendingIsAssessable
<1>7. AttemptInv'
  BY <1>1, <1>2 DEF SessionInv, AttemptInv, At, IdleProc
<1> QED
  BY <1>4, <1>5, <1>6, <1>7 DEF SessionInv

(* No step of the specification breaks the invariant. *)
LEMMA StepInv == SessionInv /\ [SessionNext]_sessionVars => SessionInv'
<1>1. SessionInv /\ UNCHANGED sessionVars => SessionInv'
  BY DEF sessionVars, SessionInv, SessionTypeOK, RetriesBounded, PendingIsAssessable, AttemptInv, At
<1> QED
  BY <1>1, MonitorInv, ManualInv, ReconcileBeginsInv, OutsideInv, GoesOnInv, AssessInv,
     EndsInv, GateInv, KilledInv, Zenon DEF SessionNext, ProcessStep

-----------------------------------------------------------------------------
(* The session file, the journal and the two locks stay consistent through *)
(* every interleaving of monitor, manual rebalances, reconcile passes,     *)
(* kills and host failures; in particular a session is attempted at most   *)
(* once more than the retry budget for each kill.                          *)
THEOREM SessionInvariant == SessionSpec => []SessionInv
BY InitInv, StepInv, PTL DEF SessionSpec

-----------------------------------------------------------------------------
(* How a step may change the session file: monitor begins an attempt, an   *)
(* attempt marks its end, or a pass settles pending orders.                *)
LocalSettles ==
    /\ local.status = "orders_pending"
    /\ local'.status \in {"completed", "completed_with_order_issues"}

LocalChanges ==
    /\ local'.day = local.day /\ local'.run = local.run /\ local'.attempts = local.attempts
    /\ \/ local.status = "running" /\ local'.status # "none"
       \/ LocalSettles

(* An attempt that marks its end was running. *)
LEMMA MarkChanges ==
    ASSUME SessionInv, NEW status \in TerminalStatuses, NEW retryable \in BOOLEAN,
           Mark(status, retryable)
    PROVE  local' = local \/ LocalChanges
<1>1. CASE proc.job # "monitor"
  BY <1>1, Marked
<1>2. CASE proc.job = "monitor"
  <2>1. /\ local'.run = local.run /\ local'.attempts = local.attempts /\ local'.day = local.day
        /\ local'.status \in {"retry_wait", status}
    BY <1>2, Marked
  <2>2. local.status = "running" /\ "none" \notin TerminalStatuses
    BY <1>2 DEF SessionInv, AttemptInv, TerminalStatuses
  <2> QED
    BY <2>1, <2>2 DEF LocalChanges
<1> QED
  BY <1>1, <1>2

(* Every step but the start of a scheduled attempt. *)
LEMMA LocalStep ==
    ASSUME SessionInv, SessionNext, ~MonitorBegins
    PROVE  local' = local \/ LocalChanges
<1>1. CASE Gate
  <2>1. CASE Mark("failed", incident)
    <3>1. incident \in BOOLEAN /\ "failed" \in TerminalStatuses
      BY DEF SessionInv, SessionTypeOK, TerminalStatuses
    <3> QED
      BY <2>1, <3>1, MarkChanges, Zenon
  <2> QED
    BY <1>1, <2>1, Zenon DEF Gate
<1>2. CASE PlanRaises \/ ExecuteRaises
  <2>1. PICK retryable \in BOOLEAN : Mark("failed", retryable)
    BY <1>2 DEF PlanRaises, ExecuteRaises
  <2> QED
    BY <2>1, MarkChanges DEF TerminalStatuses
<1>3. CASE PlanBlocked
  <2>1. PICK more \in PlanBlocks : Mark("blocked", "final" \notin proc.block \cup more)
    BY <1>3 DEF PlanBlocked
  <2>2. ("final" \notin proc.block \cup more) \in BOOLEAN /\ "blocked" \in TerminalStatuses
    BY DEF TerminalStatuses
  <2> QED
    BY <2>1, <2>2, MarkChanges, Zenon
<1>4. CASE Finish
  <2>1. ExecutionStatus \in TerminalStatuses /\ RetryableOutcome \in BOOLEAN
    BY DEF ExecutionStatus, RetryableOutcome, TerminalStatuses
  <2> QED
    BY <1>4, <2>1, MarkChanges, Zenon DEF Finish
<1>5. CASE \E r \in Runs, snapshot \in BOOLEAN : AssessRun(r, snapshot)
  <2>1. PICK r \in Runs, snapshot \in BOOLEAN : AssessRun(r, snapshot)
    BY <1>5
  <2>2. PICK quality \in Quality(r, snapshot) : MarkQuality(r, quality)
    BY <2>1 DEF AssessRun
  <2> QED
    BY <2>2 DEF MarkQuality, LocalChanges, LocalSettles, SessionInv, SessionTypeOK, LocalType
<1>6. CASE FetchOpenOrders \/ RefreshRaises \/ RefreshDone \/ PlanMade \/ AssessRaises \/ ReconcileExit
           \/ \E k \in Keys : RefreshRow(k) \/ RefreshFails(k) \/ ExecuteTrade(k)
  BY <1>6 DEF FetchOpenOrders, RefreshRaises, RefreshDone, PlanMade, AssessRaises, ReconcileExit,
     RefreshRow, RefreshFails, ExecuteTrade
<1>7. CASE ManualBegins \/ ReconcileBegins \/ ReconcileBusy \/ Report \/ ReportNothing
           \/ ContainerKilled \/ HostDown \/ AdvanceClock \/ \E k \in Keys : OperatorResolves(k)
  BY <1>7 DEF ManualBegins, ReconcileBegins, ReconcileBusy, Report, ReportNothing,
     ContainerKilled, HostDown, Killed, AdvanceClock, OperatorResolves
<1> QED
  BY <1>1, <1>2, <1>3, <1>4, <1>5, <1>6, <1>7, Zenon DEF SessionNext, ProcessStep

(* A session file that was never written has no day. *)
NoneIsFresh == local.status = "none" => local.day = 0

(* NoneIsFresh holds throughout. *)
LEMMA FreshStep == SessionInv /\ NoneIsFresh /\ [SessionNext]_sessionVars => NoneIsFresh'
<1> SUFFICES ASSUME SessionInv, NoneIsFresh, [SessionNext]_sessionVars PROVE NoneIsFresh'
  OBVIOUS
<1>1. CASE MonitorBegins
  BY <1>1 DEF MonitorBegins, BeginSession, NoneIsFresh
<1>2. CASE local' = local
  BY <1>2 DEF NoneIsFresh
<1>3. CASE LocalChanges
  BY <1>3 DEF NoneIsFresh, LocalChanges, LocalSettles
<1> QED
  BY <1>1, <1>2, <1>3, LocalStep DEF sessionVars

(* What SessionIsStable says of one step. *)
StableStep ==
    local.day # 0 /\ local'.day = local.day =>
         /\ local'.run = local.run
         /\ local'.attempts >= local.attempts
         /\ local.status \in TerminalStatuses /\ local'.status # local.status
              => /\ local.status = "orders_pending"
                 /\ local'.status \in {"completed", "completed_with_order_issues"}

(* Every step is a StableStep. *)
LEMMA StepIsStable == SessionInv /\ NoneIsFresh /\ [SessionNext]_sessionVars => StableStep
<1> SUFFICES ASSUME SessionInv, NoneIsFresh, [SessionNext]_sessionVars,
                    local.day # 0, local'.day = local.day
             PROVE  /\ local'.run = local.run
                    /\ local'.attempts >= local.attempts
                    /\ local.status \in TerminalStatuses /\ local'.status # local.status
                         => LocalSettles
  BY DEF StableStep, LocalSettles
<1>0. local.attempts \in Nat /\ local.status \in {"none", "running", "retry_wait"} \cup TerminalStatuses
  BY DEF SessionInv, SessionTypeOK, LocalType
<1>1. CASE MonitorBegins
  <2>1. local'.day = clock.day
    BY <1>1 DEF MonitorBegins, BeginSession
  <2>2. SessionStatus = local.status /\ local.status # "none"
    BY <2>1 DEF SessionStatus, NoneIsFresh
  <2>3. Resuming /\ local.status \notin TerminalStatuses
    BY <1>0, <1>1, <2>2 DEF MonitorBegins, Resuming, TerminalStatuses
  <2>4. BeginSession(local.run)
    BY <1>1, <2>3 DEF MonitorBegins
  <2>5. local'.run = local.run /\ local'.attempts = IF local.day = clock.day THEN local.attempts + 1 ELSE 1
    BY <2>4 DEF BeginSession
  <2>6. local.day = clock.day
    BY <2>1
  <2>7. local'.attempts = local.attempts + 1
    BY <2>5, <2>6
  <2> QED
    BY <1>0, <2>3, <2>5, <2>7
<1>2. CASE local' = local
  BY <1>0, <1>2
<1>3. CASE LocalChanges
  BY <1>0, <1>3 DEF LocalChanges, TerminalStatuses
<1> QED
  BY <1>1, <1>2, <1>3, LocalStep DEF sessionVars

(* Within a day the session keeps its run id, never loses count of its     *)
(* attempts and leaves a terminal status only to settle pending orders,    *)
(* whatever is killed and whichever command runs in between.               *)
THEOREM SessionStable == SessionSpec => SessionIsStable
<1>1. SessionInit => NoneIsFresh
  BY DEF SessionInit, NoSession, NoneIsFresh
<1>2. SessionSpec => [](SessionInv /\ NoneIsFresh)
  BY <1>1, InitInv, StepInv, FreshStep, PTL DEF SessionSpec
<1>3. SessionInv /\ NoneIsFresh /\ [SessionNext]_sessionVars => [StableStep]_sessionVars
  BY StepIsStable
<1>4. SessionSpec => [][StableStep]_sessionVars
  BY <1>2, <1>3, PTL DEF SessionSpec
<1> QED
  BY <1>4 DEF StableStep, SessionIsStable

-----------------------------------------------------------------------------
(* The gate is the only way past the incident, and the host lock keeps the *)
(* report of a pass out while an attempt runs.                             *)
LEMMA IncidentStep ==
    SessionInv /\ NoOrderDuringIncident /\ [SessionNext]_sessionVars => NoOrderDuringIncident'
<1> SUFFICES ASSUME SessionInv, NoOrderDuringIncident, [SessionNext]_sessionVars,
                    proc'.job = "monitor", proc'.pc \in {"fetch", "refresh", "plan", "exec"}
             PROVE  ~incident'
  BY DEF NoOrderDuringIncident
<1> USE DEF At
<1>0. proc \in ProcType
  BY DEF SessionInv, SessionTypeOK
<1>1. CASE Report
  BY <1>1 DEF Report, SessionInv, AttemptInv
<1>2. CASE Gate
  <2>1. CASE EndCommand("failed")
    BY <2>1 DEF EndCommand, IdleProc
  <2>2. CASE ~incident
    BY <1>2, <2>2, Zenon DEF Gate
  <2> QED
    BY <1>2, <2>1, <2>2, Zenon DEF Gate
<1>3. CASE MonitorBegins \/ ManualBegins \/ ReconcileBegins
  <2>1. PICK job \in {"monitor", "manual", "reconcile"} : \E run : StartCommand(job, run)
    BY <1>3, Zenon DEF MonitorBegins, ManualBegins, ReconcileBegins
  <2>2. PICK run : StartCommand(job, run)
    BY <2>1
  <2> QED
    BY <2>2 DEF StartCommand, IdleProc
<1>4. CASE PlanRaises \/ PlanBlocked \/ ExecuteRaises \/ Finish \/ AssessRaises \/ ReconcileExit
           \/ ContainerKilled \/ HostDown
  <2>1. proc' = IdleProc
    BY <1>4, Zenon DEF PlanRaises, PlanBlocked, ExecuteRaises, Finish, AssessRaises, ReconcileExit,
       ContainerKilled, HostDown, EndCommand
  <2> QED
    BY <2>1 DEF IdleProc
<1>5. CASE /\ proc.job = "monitor" /\ proc.pc \in {"fetch", "refresh", "plan", "exec"}
           /\ UNCHANGED incident
  BY <1>5, Zenon DEF NoOrderDuringIncident
<1>6. CASE FetchOpenOrders \/ RefreshRaises \/ RefreshDone \/ PlanMade
           \/ \E k \in Keys : RefreshRow(k) \/ RefreshFails(k) \/ ExecuteTrade(k)
  <2>1. UNCHANGED incident
    BY <1>6, Zenon DEF FetchOpenOrders, RefreshRaises, RefreshDone, PlanMade, RefreshRow, RefreshFails,
       ExecuteTrade
  <2>2. proc.pc \in {"fetch", "refresh", "plan", "exec"}
    BY <1>6 DEF FetchOpenOrders, RefreshRaises, RefreshDone, PlanMade, RefreshRow, RefreshFails,
       ExecuteTrade
  <2>3. proc'.job = proc.job \/ proc' = IdleProc
    BY <1>0, <1>6 DEF FetchOpenOrders, RefreshRaises, RefreshDone, PlanMade, RefreshRow, RefreshFails,
       ExecuteTrade, EndCommand, ProcType
  <2> QED
    BY <1>5, <2>1, <2>2, <2>3 DEF IdleProc
<1>7. CASE \E r \in Runs, snapshot \in BOOLEAN : AssessRun(r, snapshot)
  <2>1. proc.job = "reconcile"
    BY <1>7 DEF AssessRun, SessionInv, AttemptInv
  <2>2. proc'.job = proc.job
    BY <1>0, <1>7 DEF AssessRun, ProcType
  <2> QED
    BY <2>1, <2>2
<1>8. CASE ReconcileBusy \/ ReportNothing \/ AdvanceClock \/ UNCHANGED sessionVars
           \/ \E k \in Keys : OperatorResolves(k)
  <2>1. UNCHANGED <<proc, incident>>
    BY <1>8, Zenon DEF ReconcileBusy, ReportNothing, AdvanceClock, sessionVars, OperatorResolves
  <2> QED
    BY <1>5, <2>1
<1> QED
  BY <1>1, <1>2, <1>3, <1>4, <1>6, <1>7, <1>8, Zenon DEF SessionNext, ProcessStep

(* No scheduled attempt plans or sends an order while the reconcile        *)
(* incident is active, although the incident file is read only once.       *)
THEOREM IncidentHoldsTrading == SessionSpec => []NoOrderDuringIncident
<1>1. SessionInit => NoOrderDuringIncident
  BY DEF SessionInit, IdleProc, NoOrderDuringIncident
<1> QED
  BY <1>1, InitInv, StepInv, IncidentStep, PTL DEF SessionSpec

-----------------------------------------------------------------------------
(* The end of an incident.  A row that must not outlive it: planned, so    *)
(* not looked at yet, or unverified.                                       *)

Unsettled(k) == rows[k] \in {"planned", "unknown", "lost"}

(* A pass that has not failed has followed every planned row but those it  *)
(* still has to do.                                                        *)
PassInv ==
    proc.job = "reconcile" /\ ~proc.err =>
      /\ At("refresh") => \A k \in Keys : rows[k] = "planned" => k \in proc.todo
      /\ At("assess") => \A k \in Keys : rows[k] # "planned"

(* Between a pass that succeeds during an incident and its report every    *)
(* row is settled, and no command gets past the gate to write another one. *)
AuditInv ==
    wrap = "ok" /\ incident =>
      /\ proc.pc \in {"idle", "gate"}
      /\ \A k \in Keys : ~Unsettled(k)

ResolvedInv == PassInv /\ AuditInv

(* What a pass knows of the planned rows survives every step. *)
LEMMA PassStep == SessionInv /\ PassInv /\ [SessionNext]_sessionVars => PassInv'
<1> SUFFICES ASSUME SessionInv, PassInv, [SessionNext]_sessionVars,
                    proc'.job = "reconcile", ~proc'.err, proc'.pc \in {"refresh", "assess"}
             PROVE  /\ proc'.pc = "refresh" => \A k \in Keys : rows'[k] = "planned" => k \in proc'.todo
                    /\ proc'.pc = "assess" => \A k \in Keys : rows'[k] # "planned"
  BY DEF PassInv, At
<1>0. proc \in ProcType /\ rows \in [Keys -> RowStates]
  BY DEF SessionInv, SessionTypeOK
<1>1. CASE FetchOpenOrders
  <2>1. proc'.pc = "refresh" /\ proc'.todo = OpenRows /\ rows' = rows
    BY <1>0, <1>1 DEF FetchOpenOrders, ProcType
  <2> QED
    BY <2>1 DEF OpenRows
<1>2. ASSUME NEW k \in Keys, RefreshRow(k)
      PROVE  \A j \in Keys : rows'[j] = "planned" => j \in proc'.todo
  <2>1. PICK row \in RowRefreshed(rows[k]) : rows' = [rows EXCEPT ![k] = row]
    BY <1>2 DEF RefreshRow
  <2>2. row # "planned"
    BY <2>1 DEF RowRefreshed
  <2>3. proc'.todo = proc.todo \ {k} /\ proc'.job = proc.job /\ proc'.err = proc.err
    BY <1>0, <1>2 DEF RefreshRow, ProcType
  <2>4. \A j \in Keys : rows[j] = "planned" => j \in proc.todo
    BY <1>2, <2>3 DEF RefreshRow, PassInv, At
  <2> QED
    BY <1>0, <2>1, <2>2, <2>3, <2>4
<1>3. ASSUME NEW k \in Keys, RefreshRow(k) PROVE proc'.pc = "refresh"
  BY <1>0, <1>3 DEF RefreshRow, ProcType, At
<1>4. ASSUME NEW k \in Keys, RefreshFails(k) PROVE FALSE
  BY <1>0, <1>4 DEF RefreshFails, ProcType
<1>5. CASE RefreshDone
  <2>1. proc'.job = proc.job /\ proc'.err = proc.err /\ proc'.pc \in {"assess", "plan"}
    BY <1>0, <1>5 DEF RefreshDone, ProcType
  <2>2. At("refresh") /\ proc.todo = {} /\ rows' = rows
    BY <1>5 DEF RefreshDone
  <2> QED
    BY <2>1, <2>2 DEF PassInv
<1>6. CASE \E r \in Runs, snapshot \in BOOLEAN : AssessRun(r, snapshot)
  <2>1. /\ proc'.job = proc.job /\ proc'.err = proc.err /\ proc'.pc = proc.pc
        /\ proc'.todo = proc.todo /\ rows' = rows
    BY <1>0, <1>6 DEF AssessRun, ProcType
  <2> QED
    BY <2>1 DEF PassInv, At
<1>7. CASE PlanMade \/ \E k \in Keys : ExecuteTrade(k)
  <2>1. proc'.pc = "exec"
    BY <1>0, <1>7 DEF PlanMade, ExecuteTrade, ProcType, At
  <2> QED
    BY <2>1
<1>8. CASE MonitorBegins \/ ManualBegins \/ ReconcileBegins
  <2>1. PICK job \in {"monitor", "manual", "reconcile"} : \E run : StartCommand(job, run)
    BY <1>8, Zenon DEF MonitorBegins, ManualBegins, ReconcileBegins
  <2>2. PICK run : StartCommand(job, run)
    BY <2>1
  <2> QED
    BY <2>2 DEF StartCommand, IdleProc
<1>9. CASE Gate \/ RefreshRaises
  <2>1. proc' = IdleProc \/ Go("fetch") \/ proc' = [proc EXCEPT !.pc = "plan", !.block = {"retryable"}]
    BY <1>9, Zenon DEF Gate, RefreshRaises, EndCommand
  <2>2. CASE proc' = IdleProc
    BY <2>2 DEF IdleProc
  <2>3. CASE Go("fetch") \/ proc' = [proc EXCEPT !.pc = "plan", !.block = {"retryable"}]
    <3>1. proc'.pc \in {"fetch", "plan"}
      BY <1>0, <2>3 DEF Go, ProcType
    <3> QED
      BY <3>1
  <2> QED
    BY <2>1, <2>2, <2>3
<1>10. CASE PlanRaises \/ PlanBlocked \/ ExecuteRaises \/ Finish \/ AssessRaises \/ ReconcileExit
            \/ ContainerKilled \/ HostDown
  <2>1. proc' = IdleProc
    BY <1>10, Zenon DEF PlanRaises, PlanBlocked, ExecuteRaises, Finish, AssessRaises, ReconcileExit,
       ContainerKilled, HostDown, EndCommand
  <2> QED
    BY <2>1 DEF IdleProc
<1>11. CASE ReconcileBusy \/ Report \/ ReportNothing \/ AdvanceClock \/ UNCHANGED sessionVars
  <2>1. UNCHANGED <<proc, rows>>
    BY <1>11, Zenon DEF ReconcileBusy, Report, ReportNothing, AdvanceClock, sessionVars
  <2> QED
    BY <2>1 DEF PassInv, At
<1>12. ASSUME NEW k \in Keys, OperatorResolves(k) PROVE FALSE
  BY <1>12 DEF OperatorResolves, At
<1> QED
  BY <1>1, <1>2, <1>3, <1>4, <1>5, <1>6, <1>7, <1>8, <1>9, <1>10, <1>11, <1>12
  DEF SessionNext, ProcessStep

(* A kill outside a submission leaves every row as it was. *)
LEMMA KillKeepsRows ==
    ASSUME SessionInv, InterruptRows, ~At("exec") PROVE rows' = rows
<1>1. \A k \in Keys : CutShort(k) = {rows[k]}
  BY DEF CutShort
<1>2. rows' \in [Keys -> RowStates] /\ \A k \in Keys : rows'[k] \in CutShort(k)
  BY DEF InterruptRows
<1>3. rows \in [Keys -> RowStates] /\ \A k \in Keys : rows'[k] = rows[k]
  BY <1>1, <1>2 DEF SessionInv, SessionTypeOK
<1> QED
  BY <1>2, <1>3

(* A pass succeeds only over settled rows. *)
LEMMA ExitIsResolved ==
    ASSUME SessionInv, PassInv, ReconcileExit, wrap' = "ok"
    PROVE  proc'.pc = "idle" /\ \A k \in Keys : ~Unsettled(k)'
<1>1. proc.job = "reconcile" /\ At("assess") /\ rows' = rows
  BY DEF ReconcileExit, SessionInv, AttemptInv
<1>2. PICK audit \in BOOLEAN :
        EndCommand(IF ~proc.err /\ Unverified = {} /\ audit THEN "ok" ELSE "failed")
  BY DEF ReconcileExit
<1>3. ~proc.err /\ Unverified = {}
  BY <1>1, <1>2 DEF EndCommand
<1>4. \A k \in Keys : rows[k] # "planned"
  BY <1>1, <1>3 DEF PassInv
<1>5. proc' = IdleProc
  BY <1>2 DEF EndCommand
<1> QED
  BY <1>1, <1>3, <1>4, <1>5 DEF Unverified, Unsettled, IdleProc

(* Only a pass of reconcile-orders makes a success to report. *)
LEMMA SuccessIsAPass ==
    ASSUME SessionInv, [SessionNext]_sessionVars, wrap' = "ok", ~ReconcileExit
    PROVE  wrap = "ok" /\ incident' = incident
<1> USE DEF At
<1>0. proc \in ProcType
  BY DEF SessionInv, SessionTypeOK
<1>1. CASE MonitorBegins \/ ReconcileBegins \/ ReconcileBusy \/ Report \/ ReportNothing \/ HostDown
  BY <1>1, Zenon DEF MonitorBegins, ReconcileBegins, ReconcileBusy, Report, ReportNothing, HostDown
<1>2. CASE UNCHANGED <<wrap, incident>>
  BY <1>2
<1>3. CASE ManualBegins \/ AdvanceClock \/ FetchOpenOrders \/ RefreshDone \/ PlanMade
           \/ UNCHANGED sessionVars
           \/ (\E k \in Keys : RefreshRow(k) \/ RefreshFails(k) \/ ExecuteTrade(k))
           \/ (\E k \in Keys : OperatorResolves(k))
           \/ \E r \in Runs, snapshot \in BOOLEAN : AssessRun(r, snapshot)
  BY <1>2, <1>3, Zenon DEF ManualBegins, AdvanceClock, FetchOpenOrders, RefreshDone, PlanMade,
     sessionVars, RefreshRow, RefreshFails, ExecuteTrade, OperatorResolves, AssessRun
<1>4. CASE Gate \/ RefreshRaises \/ PlanRaises \/ PlanBlocked \/ ExecuteRaises \/ AssessRaises
           \/ ContainerKilled
  <2>1. (EndCommand("failed") \/ UNCHANGED wrap) /\ UNCHANGED incident
    BY <1>4, Zenon DEF Gate, RefreshRaises, PlanRaises, PlanBlocked, ExecuteRaises, AssessRaises,
       ContainerKilled, Killed
  <2> QED
    BY <2>1 DEF EndCommand
<1>5. CASE Finish
  <2>1. EndCommand("ok") /\ UNCHANGED incident /\ proc.job # "reconcile"
    BY <1>5 DEF Finish, SessionInv, AttemptInv
  <2> QED
    BY <2>1 DEF EndCommand
<1> QED
  BY <1>1, <1>3, <1>4, <1>5, Zenon DEF SessionNext, ProcessStep

(* While a success waits to be reported, nothing gets past the gate and no *)
(* row changes.                                                            *)
LEMMA AuditStep ==
    SessionInv /\ PassInv /\ AuditInv /\ [SessionNext]_sessionVars => AuditInv'
<1> SUFFICES ASSUME SessionInv, PassInv, AuditInv, [SessionNext]_sessionVars,
                    wrap' = "ok", incident'
             PROVE  proc'.pc \in {"idle", "gate"} /\ \A k \in Keys : ~Unsettled(k)'
  BY DEF AuditInv
<1>1. CASE ReconcileExit
  BY <1>1, ExitIsResolved
<1>2. CASE ~ReconcileExit
  <2>1. wrap = "ok" /\ incident
    BY <1>2, SuccessIsAPass
  <2>2. proc.pc \in {"idle", "gate"} /\ \A k \in Keys : ~Unsettled(k)
    BY <2>1 DEF AuditInv
  <2>3. SUFFICES proc'.pc \in {"idle", "gate"} /\ rows' = rows
    BY <2>2 DEF Unsettled
  <2>4. CASE MonitorBegins \/ ReconcileBegins \/ ReconcileBusy
    BY <2>1, <2>4 DEF MonitorBegins, ReconcileBegins, ReconcileBusy
  <2>5. CASE Report \/ ReportNothing \/ HostDown
    BY <2>5 DEF Report, ReportNothing, HostDown
  <2>6. CASE ManualBegins
    BY <2>6 DEF ManualBegins, StartCommand, IdleProc
  <2>7. CASE Gate
    BY <2>1, <2>7 DEF Gate, EndCommand, IdleProc
  <2>8. CASE ContainerKilled
    <3>1. InterruptRows /\ proc' = IdleProc
      BY <2>8 DEF ContainerKilled, Killed, EndCommand
    <3> QED
      BY <2>2, <3>1, KillKeepsRows DEF IdleProc, At
  <2>9. CASE AdvanceClock \/ UNCHANGED sessionVars
    BY <2>2, <2>9 DEF AdvanceClock, sessionVars
  <2>10. CASE FetchOpenOrders \/ RefreshRaises \/ RefreshDone \/ PlanRaises \/ PlanBlocked \/ PlanMade
              \/ ExecuteRaises \/ Finish \/ AssessRaises
              \/ (\E k \in Keys : RefreshRow(k) \/ RefreshFails(k) \/ ExecuteTrade(k))
              \/ \E r \in Runs, snapshot \in BOOLEAN : AssessRun(r, snapshot)
    BY <2>2, <2>10 DEF FetchOpenOrders, RefreshRaises, RefreshDone, PlanRaises, PlanBlocked, PlanMade,
       ExecuteRaises, Finish, AssessRaises, RefreshRow, RefreshFails, ExecuteTrade, AssessRun, At
  <2>11. ASSUME NEW k \in Keys, OperatorResolves(k) PROVE FALSE
    BY <2>2, <2>11 DEF OperatorResolves, Unsettled
  <2> QED
    BY <1>2, <2>4, <2>5, <2>6, <2>7, <2>8, <2>9, <2>10, <2>11, Zenon DEF SessionNext, ProcessStep
<1> QED
  BY <1>1, <1>2

(* The report of a success ends an incident, and nothing else does. *)
LEMMA EndIsReported ==
    ASSUME SessionInv, AuditInv, [SessionNext]_sessionVars, incident, ~incident'
    PROVE  \A k \in Keys : ~Unsettled(k)
<1>1. CASE Report
  BY <1>1 DEF Report, AuditInv
<1>2. CASE UNCHANGED incident
  BY <1>2
<1>3. CASE ~Report
  <2>1. UNCHANGED incident
    BY <1>3, Zenon DEF SessionNext, ProcessStep, sessionVars, MonitorBegins, ManualBegins, ReconcileBegins,
       ReconcileBusy, ReportNothing, ContainerKilled, HostDown, Killed, AdvanceClock, OperatorResolves,
       Gate, FetchOpenOrders, RefreshRaises, RefreshDone, PlanRaises, PlanBlocked, PlanMade,
       ExecuteRaises, Finish, AssessRaises, ReconcileExit, RefreshRow, RefreshFails, ExecuteTrade, AssessRun
  <2> QED
    BY <1>2, <2>1
<1> QED
  BY <1>1, <1>3

(* For any number of runs, trades, kills and days, the incident ends only  *)
(* when no row of the ledger is unverified or still to be looked at, even  *)
(* though the report comes after the pass gave the runtime lock back.      *)
THEOREM IncidentEndsSettled == SessionSpec => IncidentEndsResolved
<1>1. SessionInit => ResolvedInv
  BY DEF SessionInit, IdleProc, ResolvedInv, PassInv, AuditInv, At
<1>2. SessionInv /\ ResolvedInv /\ [SessionNext]_sessionVars => ResolvedInv'
  BY PassStep, AuditStep DEF ResolvedInv
<1>3. SessionSpec => [](SessionInv /\ ResolvedInv)
  BY <1>1, <1>2, InitInv, StepInv, PTL DEF SessionSpec
<1> DEFINE Step == incident /\ ~incident' => \A k \in Keys : rows[k] \notin {"planned", "unknown", "lost"}
<1>4. SessionInv /\ ResolvedInv /\ [SessionNext]_sessionVars => [Step]_sessionVars
  BY EndIsReported DEF ResolvedInv, Unsettled
<1>5. SessionSpec => [][Step]_sessionVars
  BY <1>3, <1>4, PTL DEF SessionSpec
<1> QED
  BY <1>5 DEF IncidentEndsResolved

-----------------------------------------------------------------------------
(* The ledger under the commands implements OrderRows. *)

(* What the running command has in hand: rows an attempt has planned and   *)
(* not sent, open rows a pass has to follow.                               *)
HandInv ==
    /\ At("exec") => \A k \in proc.todo : rows[k] = "planned"
    /\ At("refresh") => proc.todo \subseteq OpenRows

RowStep == [R!Next]_<<rows, Sending>>

(* A command starts, ends or goes on without touching the ledger. *)
LEMMA QuietRows ==
    ASSUME rows' = rows, proc'.pc \notin {"exec", "refresh"}, ~At("exec") \/ proc.todo = {}
    PROVE  HandInv' /\ RowStep
BY DEF HandInv, RowStep, Sending, At

(* An attempt is cut short. *)
LEMMA CutRows ==
    ASSUME SessionInv, HandInv, InterruptRows, proc' = IdleProc
    PROVE  HandInv' /\ RowStep
<1>1. proc'.pc = "idle" /\ Sending' = {}
  BY DEF IdleProc, Sending, At
<1>2. HandInv'
  BY <1>1 DEF HandInv, At
<1>3. CASE ~At("exec")
  BY <1>1, <1>3, KillKeepsRows, QuietRows
<1>4. CASE At("exec")
  <2>1. /\ rows \in [Keys -> RowStates] /\ rows' \in [Keys -> RowStates]
        /\ \A k \in Keys : rows'[k] \in CutShort(k)
    BY <1>4 DEF InterruptRows, SessionInv, SessionTypeOK
  <2>2. Sending = proc.todo /\ Sending \subseteq Keys
    BY <1>4 DEF SessionInv, SessionTypeOK, ProcType, Sending
  <2> DEFINE f == [k \in Sending |-> rows'[k]]
  <2>3. \A k \in Sending : rows'[k] \in R!OpenStates \cup {"final"}
    BY <1>4, <2>1, <2>2 DEF CutShort, R!OpenStates
  <2>4. \A k \in Keys \ Sending : rows'[k] = rows[k]
    BY <1>4, <2>1, <2>2 DEF CutShort
  <2>5. f \in [Sending -> R!OpenStates \cup {"final"}]
    BY <2>3
  <2>6. rows' = [k \in Keys |-> IF k \in Sending THEN f[k] ELSE rows[k]]
    BY <2>1, <2>4
  <2> HIDE DEF f
  <2>7. R!CutShort
    BY <1>1, <2>5, <2>6 DEF R!CutShort
  <2> QED
    BY <1>2, <2>7 DEF RowStep, R!Next
<1> QED
  BY <1>3, <1>4

(* A pass follows one row. *)
LEMMA RefreshFollows ==
    ASSUME SessionInv, HandInv, NEW k \in Keys, RefreshRow(k) \/ RefreshFails(k)
    PROVE  HandInv' /\ RowStep
<1>0. proc \in ProcType /\ rows \in [Keys -> RowStates]
  BY DEF SessionInv, SessionTypeOK
<1>1. At("refresh") /\ k \in proc.todo /\ proc.todo \subseteq OpenRows
  BY DEF RefreshRow, RefreshFails, HandInv
<1>2. proc'.pc = "refresh" /\ proc'.todo = proc.todo \ {k}
  BY <1>0, <1>1 DEF RefreshRow, RefreshFails, ProcType, At
<1>3. Sending = {} /\ Sending' = {}
  BY <1>1, <1>2 DEF Sending, At
<1>4. CASE RefreshFails(k)
  BY <1>1, <1>2, <1>3, <1>4 DEF RefreshFails, HandInv, RowStep, At, OpenRows
<1>5. CASE RefreshRow(k)
  <2>1. PICK row \in RowRefreshed(rows[k]) : rows' = [rows EXCEPT ![k] = row]
    BY <1>5 DEF RefreshRow
  <2>2. rows[k] \in R!OpenStates /\ row \in R!Evidence(rows[k])
    BY <1>1, <2>1 DEF OpenRows, R!OpenStates, RowRefreshed, R!Evidence
  <2>3. R!Follow(k)
    BY <1>3, <2>1, <2>2 DEF R!Follow
  <2>4. HandInv'
    BY <1>0, <1>1, <1>2, <2>1 DEF HandInv, At, OpenRows
  <2> QED
    BY <2>3, <2>4 DEF RowStep, R!Next
<1> QED
  BY <1>4, <1>5

(* An attempt plans its rows, and then sends them one by one. *)
LEMMA AttemptSends ==
    ASSUME SessionInv, HandInv, PlanMade \/ \E k \in Keys : ExecuteTrade(k)
    PROVE  HandInv' /\ RowStep
<1>0. proc \in ProcType /\ rows \in [Keys -> RowStates] /\ proc.todo \subseteq Keys
  BY DEF SessionInv, SessionTypeOK, ProcType
<1>1. CASE PlanMade
  <2>1. PICK P \in SUBSET Trades :
          LET fresh == {t \in P : Resubmittable(<<proc.run, t>>)}
          IN  /\ rows' = [k \in Keys |-> IF k \in {proc.run} \X fresh THEN "planned" ELSE rows[k]]
              /\ proc' = [proc EXCEPT !.pc = "exec", !.todo = {proc.run} \X fresh,
                                      !.res = [t \in P \ fresh |-> "replay"]]
    BY <1>1, Zenon DEF PlanMade
  <2> DEFINE fresh == {t \in P : Resubmittable(<<proc.run, t>>)}
             K == {proc.run} \X fresh
             res == [t \in P \ fresh |-> "replay"]
  <2>2. /\ At("plan") /\ proc.run \in Runs
        /\ rows' = [k \in Keys |-> IF k \in K THEN "planned" ELSE rows[k]]
        /\ proc' = [proc EXCEPT !.pc = "exec", !.todo = K, !.res = res]
    BY <1>1, <2>1 DEF PlanMade, SessionInv, AttemptInv, At
  <2>3. \A k \in K : rows[k] \in R!Resubmittable
    BY DEF Resubmittable, R!Resubmittable
  <2>4. K \in SUBSET Keys
    BY <2>2 DEF Keys
  <2> HIDE DEF K, res
  <2>5. proc'.pc = "exec" /\ proc'.todo = K
    BY <1>0, <2>2 DEF ProcType
  <2>6. Sending = {} /\ Sending' = K
    BY <2>2, <2>5 DEF Sending, At
  <2>7. R!Plan(K)
    BY <2>2, <2>3, <2>6 DEF R!Plan
  <2>8. HandInv'
    BY <2>2, <2>4, <2>5 DEF HandInv, At
  <2> QED
    BY <2>4, <2>7, <2>8 DEF RowStep, R!Next
<1>2. ASSUME NEW k \in Keys, ExecuteTrade(k) PROVE HandInv' /\ RowStep
  <2>1. At("exec") /\ k \in proc.todo /\ rows[k] = "planned"
    BY <1>2 DEF ExecuteTrade, HandInv
  <2>2. PICK kind \in FreshKinds :
          /\ \E row \in RowAfter(kind) : rows' = [rows EXCEPT ![k] = row]
          /\ \E res : proc' = [proc EXCEPT !.todo = @ \ {k}, !.res = res]
    BY <1>2, Zenon DEF ExecuteTrade
  <2>3. PICK row \in RowAfter(kind) : rows' = [rows EXCEPT ![k] = row]
    BY <2>2
  <2>4. row \in {"working", "unknown", "lost", "retry", "final"}
    BY DEF RowAfter, FreshKinds
  <2>5. proc'.pc = "exec" /\ proc'.todo = proc.todo \ {k}
    BY <1>0, <2>1, <2>2 DEF ProcType, At
  <2>6. Sending = proc.todo /\ Sending' = proc.todo \ {k}
    BY <2>1, <2>5 DEF Sending, At
  <2>7. R!Submit(k)
    BY <2>1, <2>3, <2>4, <2>6 DEF R!Submit
  <2>8. HandInv'
    BY <1>0, <2>1, <2>3, <2>5 DEF HandInv, At
  <2> QED
    BY <2>7, <2>8 DEF RowStep, R!Next
<1> QED
  BY <1>1, <1>2

(* Every step moves the rows as OrderRows lets it. *)
LEMMA RowsStep ==
    ASSUME SessionInv, HandInv, [SessionNext]_sessionVars
    PROVE  HandInv' /\ RowStep
<1>0. proc \in ProcType /\ rows \in [Keys -> RowStates]
  BY DEF SessionInv, SessionTypeOK
<1>1. CASE FetchOpenOrders
  <2>1. /\ At("fetch") /\ proc'.pc = "refresh" /\ proc'.todo = OpenRows /\ rows' = rows
    BY <1>0, <1>1 DEF FetchOpenOrders, ProcType
  <2> QED
    BY <2>1 DEF HandInv, RowStep, Sending, At, OpenRows
<1>2. CASE RefreshDone \/ \E r \in Runs, snapshot \in BOOLEAN : AssessRun(r, snapshot)
  <2>1. proc'.pc \in {"assess", "plan"} /\ rows' = rows /\ ~At("exec")
    BY <1>0, <1>2 DEF RefreshDone, AssessRun, ProcType, At
  <2> QED
    BY <2>1, QuietRows
<1>3. CASE MonitorBegins \/ ManualBegins \/ ReconcileBegins
  <2>1. PICK job, run : StartCommand(job, run)
    BY <1>3, Zenon DEF MonitorBegins, ManualBegins, ReconcileBegins
  <2>2. proc'.pc \in {"gate", "fetch"}
    BY <2>1 DEF StartCommand, IdleProc
  <2>3. rows' = rows /\ ~At("exec")
    BY <1>3 DEF MonitorBegins, ManualBegins, ReconcileBegins, At
  <2> QED
    BY <2>2, <2>3, QuietRows
<1>4. CASE Gate \/ RefreshRaises
  <2>1. proc' = IdleProc \/ Go("fetch") \/ proc' = [proc EXCEPT !.pc = "plan", !.block = {"retryable"}]
    BY <1>4, Zenon DEF Gate, RefreshRaises, EndCommand
  <2>2. proc'.pc \in {"idle", "fetch", "plan"}
    <3>1. CASE proc' = IdleProc
      BY <3>1 DEF IdleProc
    <3>2. CASE Go("fetch") \/ proc' = [proc EXCEPT !.pc = "plan", !.block = {"retryable"}]
      BY <1>0, <3>2 DEF Go, ProcType
    <3> QED
      BY <2>1, <3>1, <3>2
  <2>3. rows' = rows /\ ~At("exec")
    BY <1>4 DEF Gate, RefreshRaises, At
  <2> QED
    BY <2>2, <2>3, QuietRows
<1>5. CASE PlanRaises \/ PlanBlocked \/ Finish \/ AssessRaises \/ ReconcileExit
  <2>1. proc' = IdleProc /\ rows' = rows
    BY <1>5, Zenon DEF PlanRaises, PlanBlocked, Finish, AssessRaises, ReconcileExit, EndCommand
  <2>2. ~At("exec") \/ proc.todo = {}
    BY <1>5 DEF PlanRaises, PlanBlocked, Finish, AssessRaises, ReconcileExit, At
  <2> QED
    BY <2>1, <2>2, QuietRows DEF IdleProc
<1>6. CASE ExecuteRaises \/ ContainerKilled \/ HostDown
  <2>1. InterruptRows /\ proc' = IdleProc
    BY <1>6, Zenon DEF ExecuteRaises, ContainerKilled, HostDown, Killed, EndCommand
  <2> QED
    BY <2>1, CutRows
<1>7. CASE ReconcileBusy \/ Report \/ ReportNothing \/ AdvanceClock \/ UNCHANGED sessionVars
  <2>1. UNCHANGED <<proc, rows>>
    BY <1>7, Zenon DEF ReconcileBusy, Report, ReportNothing, AdvanceClock, sessionVars
  <2> QED
    BY <2>1 DEF HandInv, RowStep, Sending, At, OpenRows
<1>8. ASSUME NEW k \in Keys, OperatorResolves(k) PROVE HandInv' /\ RowStep
  <2>1. /\ proc.pc = "idle" /\ proc' = proc /\ rows[k] = "unknown"
        /\ rows' = [rows EXCEPT ![k] = "final"]
    BY <1>8 DEF OperatorResolves, At
  <2>2. Sending = {} /\ Sending' = {}
    BY <2>1 DEF Sending, At
  <2>3. R!Follow(k)
    BY <2>1, <2>2 DEF R!Follow, R!OpenStates, R!Evidence
  <2> QED
    BY <2>1, <2>3 DEF RowStep, R!Next, HandInv, At
<1> QED
  BY <1>1, <1>2, <1>3, <1>4, <1>5, <1>6, <1>7, <1>8, RefreshFollows, AttemptSends
  DEF SessionNext, ProcessStep

(* monitor, rebalance, reconcile-orders and the operator move the rows of  *)
(* the ledger only as OrderRows lets them, through kills, host failures    *)
(* and retries: the specification that execution_manager.py implements in  *)
(* detail.                                                                 *)
THEOREM SessionImplementsRows == SessionSpec => SessionFollowsRows
<1>1. SessionInit => HandInv /\ R!Init
  <2> SUFFICES ASSUME SessionInit PROVE HandInv /\ R!Init
    OBVIOUS
  <2>1. proc.pc = "idle" /\ rows = [k \in Keys |-> "absent"]
    BY DEF SessionInit, IdleProc
  <2> QED
    BY <2>1 DEF HandInv, R!Init, Sending, At
<1>2. SessionInv /\ HandInv /\ [SessionNext]_sessionVars => HandInv' /\ [R!Next]_<<rows, Sending>>
  BY RowsStep DEF RowStep
<1> QED
  BY <1>1, <1>2, SessionInvariant, PTL DEF SessionSpec, SessionFollowsRows, R!RowsSpec

=============================================================================
