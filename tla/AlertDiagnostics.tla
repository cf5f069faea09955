-------------------------- MODULE AlertDiagnostics --------------------------
(* Incident alerts of a scheduled command: run_logged.sh runs it,         *)
(* alert_diagnostics.report compares the result with the command's        *)
(* incident file and sends a Telegram message, drain_notifications.py     *)
(* drains the outbox.  The application sends its own alerts into the same *)
(* outbox at any time, and an operator may drain it by hand.  A command   *)
(* that finds a lock busy reports nothing and takes no step here.         *)
EXTENDS TelegramOutbox

CONSTANTS
    App, Host,      \* the two writers
    Cron, Manual,   \* the two drainers
    Categories,     \* what classify returns
    RepeatAfter     \* REPEAT_ALERT_SECONDS, in ticks

ASSUME AlertAssumption ==
    /\ Writers = {App, Host} /\ App # Host
    /\ Drainers = {Cron, Manual} /\ Cron # Manual
    /\ Categories # {} /\ RepeatAfter \in Nat \ {0}

VARIABLES
    incident,   \* state/cron-alert-<command>.json
    host        \* where run_logged.sh is after the command has ended

alertVars == <<incident, host>>
vars == <<outboxVars, alertVars>>

HostPC == {"idle", "notify", "recover", "enqueue", "enqueue_clear", "clear", "drain"}

(* No file, an unreadable file and an inactive one read the same. *)
NoIncident == [active |-> FALSE, count |-> 0,
               category |-> CHOOSE c \in Categories : TRUE, age |-> 0]

Init == OutboxInit /\ incident = NoIncident /\ host = "idle"

(* report compares count with 3 only. *)
NextCount(n) == IF n < 4 THEN n + 1 ELSE n

(* Mutant: an incident is announced when it starts, changes or lasts. *)
MustNotifyOnce(category, count) ==
    \/ ~incident.active \/ incident.category # category \/ count = 3

(* A new incident, another category, the third failure, or 15 minutes of   *)
(* silence.                                                                *)
MustNotify(category, count) ==
    \/ ~incident.active \/ incident.category # category
    \/ count = 3 \/ incident.age >= RepeatAfter

(* report, failure: the incident file is written before the message goes. *)
ReportFailure(category) ==
    LET count == IF incident.active THEN NextCount(incident.count) ELSE 1
        notify == MustNotify(category, count)
    IN /\ host = "idle"
       /\ incident' = [active |-> TRUE, count |-> count, category |-> category,
                       age |-> IF notify THEN 0 ELSE incident.age]
       /\ host' = IF notify THEN "notify" ELSE "drain"
       /\ UNCHANGED outboxVars

(* report, success: the recovery message goes before the file is written. *)
(* With no incident there is no message, and the file stays inactive.      *)
ReportSuccess ==
    /\ host = "idle"
    /\ host' = IF incident.active THEN "recover" ELSE "drain"
    /\ UNCHANGED <<outboxVars, incident>>

(* A full disk: write_state raises, and report ends with the incident file *)
(* as it was and, on a failure, without a message.                         *)
ReportFails ==
    /\ host \in {"idle", "clear"} /\ Fault
    /\ host' = "drain"
    /\ UNCHANGED <<files, rec, torn, fate, writer, drain, flock, incident>>

(* send_message of the failure; a failed POST goes on to enqueue. *)
SendFailure ==
    /\ host = "notify"
    /\ Send(Host)
    /\ host' = IF writer'[Host].pc = "idle" THEN "drain" ELSE "enqueue"
    /\ UNCHANGED incident

SendRecovered ==
    /\ host = "recover"
    /\ Send(Host)
    /\ host' = IF writer'[Host].pc = "idle" THEN "clear" ELSE "enqueue_clear"
    /\ UNCHANGED incident

HostEnqueue ==
    /\ host \in {"enqueue", "enqueue_clear"}
    /\ EnqueueList(Host) \/ EnqueueWrite(Host)
    /\ host' = IF writer'[Host].pc # "idle" THEN host
               ELSE IF host = "enqueue" THEN "drain" ELSE "clear"
    /\ UNCHANGED incident

ClearIncident ==
    /\ host = "clear"
    /\ incident' = NoIncident
    /\ host' = "drain"
    /\ UNCHANGED outboxVars

(* drain_notifications.main; a busy lock makes drain return 0, 0. *)
HostDrain ==
    /\ host = "drain"
    /\ \/ DrainStart(Cron) /\ UNCHANGED host
       \/ DrainStep(Cron) /\ host' = IF drain'[Cron].pc = "idle" THEN "idle" ELSE host
       \/ /\ drain[Cron].pc = "idle" /\ flock # NoDrain
          /\ host' = "idle" /\ UNCHANGED outboxVars
    /\ UNCHANGED incident

(* The host script is killed, with whatever it was doing. *)
HostKilled ==
    /\ host # "idle"
    /\ host' = "idle"
    /\ \/ KillWriter(Host) \/ KillDrain(Cron)
       \/ /\ writer[Host].pc = "idle" /\ drain[Cron].pc = "idle" /\ Fault
          /\ UNCHANGED <<files, rec, torn, fate, writer, drain, flock>>
    /\ UNCHANGED incident

AppSend == Send(App) /\ UNCHANGED alertVars
AppEnqueue == (EnqueueList(App) \/ EnqueueWrite(App)) /\ UNCHANGED alertVars
AppKilled == KillWriter(App) /\ UNCHANGED alertVars

ManualStart == DrainStart(Manual) /\ UNCHANGED alertVars
ManualStep == DrainStep(Manual) /\ UNCHANGED alertVars
ManualKilled == KillDrain(Manual) /\ UNCHANGED alertVars

(* A power failure may tear the incident file too. *)
Reboot == PowerFailure /\ host' = "idle" /\ incident' \in {incident, NoIncident}

Tick ==
    /\ host = "idle" /\ OutboxTick
    /\ incident' = [incident EXCEPT !.age =
            IF incident.active /\ @ < RepeatAfter THEN @ + 1 ELSE @]
    /\ UNCHANGED host

HostStep ==
    \/ SendFailure \/ SendRecovered \/ HostEnqueue \/ ClearIncident \/ HostDrain

CommandEnds == ReportSuccess \/ \E category \in Categories : ReportFailure(category)

Next ==
    \/ CommandEnds \/ ReportFails \/ HostStep \/ HostKilled
    \/ AppSend \/ AppEnqueue \/ AppKilled \/ ManualStart \/ ManualStep \/ ManualKilled
    \/ Reboot \/ Tick

Spec == Init /\ [][Next]_vars

(* Nothing is being sent or drained. *)
Quiet == host = "idle" /\ flock = NoDrain /\ \A w \in Writers : writer[w].pc = "idle"

(* cron runs the command every few minutes, a started script runs on, and  *)
(* time passes: a quiet moment comes again and again.  Nothing obliges     *)
(* Telegram to answer, the application to be silent or an operator to      *)
(* drain.                                                                  *)
Fairness ==
    /\ WF_vars(CommandEnds) /\ WF_vars(HostStep)
    /\ []<>Quiet /\ SF_vars(Tick)

FairSpec == Spec /\ Fairness

-----------------------------------------------------------------------------
(* The types of the two components' state. *)
TypeOK ==
    /\ OutboxTypeOK
    /\ incident \in [active : BOOLEAN, count : 0 .. 4, category : Categories,
                     age : 0 .. RepeatAfter]
    /\ host \in HostPC

(* "bounded disk usage is essential" (telegram_outbox.py:54).  enqueue    *)
(* compares and writes without a lock, so the directory can exceed        *)
(* MAX_MESSAGES, but by no more than the writers that raced.              *)
QueueIsBounded == Cardinality(files) <= MaxMessages + Cardinality(Writers) - 1

(* "message delivery is at-least-once if Telegram accepts a request but   *)
(* the acknowledgement is lost" (telegram_outbox.py:4): a drain hands     *)
(* Telegram a message it has already taken only after such a fault or one *)
(* between delivery and unlink, however drains interleave.                *)
DuplicatesAreExcused ==
    [][\A d \in Drainers :
          (drain[d].pc = "next" /\ drain'[d].pc = "unlink")
             => fate[drain'[d].m] # "yes"]_vars

(* "never delete a valid unsent message" (telegram_outbox.py:130): a       *)
(* message leaves the directory only if Telegram took it, it is torn, it   *)
(* is a day old or out of attempts, or reading its file failed in that     *)
(* very step.                                                              *)
NoSilentLoss ==
    [][\A m \in files \ files' :
          \/ fate[m] # "no" \/ m \in torn
          \/ rec[m].life = 0 \/ rec[m].attempts + 1 >= MaxAttempts
          \/ /\ faults' # faults
             /\ \E d \in Drainers : drain[d].pc = "next" /\ m \in drain[d].todo]_vars

(* report: as long as the command keeps failing, a failure message is sent *)
(* again and again, whatever happened to the earlier ones: count and        *)
(* last_alert_at of the incident file cannot silence a standing incident.   *)
IncidentKeepsAlerting == []<>(host = "notify" \/ ~incident.active)
=============================================================================
