--------------------------- MODULE TelegramOutbox ---------------------------
(* The durable Telegram outbox that the application container and the VM  *)
(* host share (telegram_outbox.py) and the senders in front of it,        *)
(* notifications.send_alert and alert_diagnostics.send_message.           *)
(*                                                                         *)
(* A message is a file of state/telegram-outbox.  Senders take no lock:   *)
(* each lists the directory, compares the count with MAX_MESSAGES and     *)
(* only then writes.  Drains exclude one another with flock.  A process   *)
(* may be killed between any two steps, a file operation may fail,        *)
(* Telegram may accept a message whose acknowledgement is lost, and a     *)
(* power failure may tear a file, because _write does not sync it.        *)
EXTENDS Naturals, FiniteSets

CONSTANTS
    Msgs,          \* message slots; a slot is reused once its message is gone
    Writers,       \* processes that send alerts
    Drainers,      \* processes that drain the outbox
    NoMsg, NoDrain,
    MaxMessages,   \* MAX_MESSAGES
    MaxAttempts,   \* MAX_ATTEMPTS
    BatchSize,     \* BATCH_SIZE
    TTL,           \* TTL_SECONDS, in ticks
    MaxWait,       \* longest backoff, in ticks
    MaxFaults      \* bound on the faults of one behaviour

ASSUME OutboxAssumption ==
    /\ IsFiniteSet(Writers) /\ Writers # {}
    /\ NoMsg \notin Msgs /\ NoDrain \notin Drainers
    /\ MaxMessages \in Nat \ {0} /\ MaxAttempts \in Nat \ {0}
    /\ BatchSize \in Nat \ {0} /\ TTL \in Nat \ {0}
    /\ MaxWait \in Nat \ {0} /\ MaxFaults \in Nat

VARIABLES
    files,     \* the messages in the directory
    rec,       \* rec[m]: ticks left to live and to wait, attempts so far
    torn,      \* files whose contents cannot be parsed
    fate,      \* did Telegram accept m: "no", "yes", or "lost": it did, and
               \* a fault keeps POMA from acting on it
    writer,    \* writer[w]: the send in progress
    drain,     \* drain[d]: the drain in progress
    flock,     \* the holder of .drain.lock
    faults     \* faults so far

outboxVars == <<files, rec, torn, fate, writer, drain, flock, faults>>

IdleWriter == [pc |-> "idle", m |-> NoMsg]
IdleDrain == [pc |-> "idle", todo |-> {}, tried |-> 0, m |-> NoMsg]

(* What enqueue stores: the first retry is one tick away. *)
Fresh == [life |-> TTL, wait |-> 1, attempts |-> 0]

OutboxInit ==
    /\ files = {} /\ torn = {}
    /\ rec = [m \in Msgs |-> Fresh]
    /\ fate = [m \in Msgs |-> "no"]
    /\ writer = [w \in Writers |-> IdleWriter]
    /\ drain = [d \in Drainers |-> IdleDrain]
    /\ flock = NoDrain
    /\ faults = 0

Fault == faults < MaxFaults /\ faults' = faults + 1
NoFault == faults' = faults

InFlight == {writer[w].m : w \in Writers} \cup {drain[d].m : d \in Drainers}
FreeSlots == Msgs \ (files \cup InFlight)

(* Slots are names only: any free one will do. *)
NewFile == IF FreeSlots = {} THEN {} ELSE {CHOOSE m \in FreeSlots : TRUE}

(* path.unlink(missing_ok=True); the slot is reset for its next message. *)
Unlink(m) ==
    /\ files' = files \ {m} /\ torn' = torn \ {m}
    /\ rec' = [rec EXCEPT ![m] = Fresh]
    /\ fate' = [fate EXCEPT ![m] = "no"]

-----------------------------------------------------------------------------
(* Sending.  POST to Telegram first; only a failure queues the message.   *)

Send(w) ==
    /\ writer[w].pc = "idle"
    /\ \/ UNCHANGED <<fate, writer, faults>>              \* delivered
       \/ \E m \in NewFile :
            /\ writer' = [writer EXCEPT ![w] = [pc |-> "list", m |-> m]]
            /\ \/ NoFault /\ fate' = [fate EXCEPT ![m] = "no"]
               \/ Fault /\ fate' = [fate EXCEPT ![m] = "lost"]
    /\ UNCHANGED <<files, rec, torn, drain, flock>>

(* Mutant: the limit is off by one. *)
EnqueueListOver(w) ==
    /\ writer[w].pc = "list"
    /\ writer' = [writer EXCEPT ![w] =
            IF Cardinality(files) > MaxMessages THEN IdleWriter
            ELSE [@ EXCEPT !.pc = "write"]]
    /\ UNCHANGED <<files, rec, torn, fate, drain, flock, faults>>

(* enqueue, up to the comparison with MAX_MESSAGES. *)
EnqueueList(w) ==
    /\ writer[w].pc = "list"
    /\ writer' = [writer EXCEPT ![w] =
            IF Cardinality(files) >= MaxMessages THEN IdleWriter
            ELSE [@ EXCEPT !.pc = "write"]]
    /\ UNCHANGED <<files, rec, torn, fate, drain, flock, faults>>

(* enqueue, the write: a storage error loses the message. *)
EnqueueWrite(w) ==
    /\ writer[w].pc = "write"
    /\ \/ NoFault /\ files' = files \cup {writer[w].m}
       \/ Fault /\ UNCHANGED files
    /\ writer' = [writer EXCEPT ![w] = IdleWriter]
    /\ UNCHANGED <<rec, torn, fate, drain, flock>>

-----------------------------------------------------------------------------
(* Draining. *)

(* Mutant: the lock is not taken. *)
DrainStartUnlocked(d) ==
    /\ drain[d].pc = "idle"
    /\ drain' = [drain EXCEPT ![d] =
                    [pc |-> "next", todo |-> files, tried |-> 0, m |-> NoMsg]]
    /\ UNCHANGED <<files, rec, torn, fate, writer, flock, faults>>

DrainStart(d) ==
    /\ drain[d].pc = "idle" /\ flock = NoDrain
    /\ flock' = d
    /\ drain' = [drain EXCEPT ![d] =
                    [pc |-> "next", todo |-> files, tried |-> 0, m |-> NoMsg]]
    /\ UNCHANGED <<files, rec, torn, fate, writer, faults>>

(* File names begin with the creation time; _messages sorts them. *)
Oldest(S) == {m \in S : \A n \in S : rec[m].life <= rec[n].life}

Expired(m) == rec[m].life = 0 \/ rec[m].attempts >= MaxAttempts

(* A torn, expired or exhausted record, and one whose file cannot be read *)
(* just now, is unlinked without an attempt; the unlink may fail.         *)
DrainDiscard(d) ==
    /\ drain[d].pc = "next"
    /\ \E m \in Oldest(drain[d].todo) :
        /\ drain' = [drain EXCEPT ![d].todo = @ \ {m}]
        /\ \/ (m \in torn \/ Expired(m)) /\ NoFault /\ Unlink(m)
           \/ Fault /\ Unlink(m)                           \* OSError on read
           \/ (m \in torn \/ Expired(m)) /\ Fault /\ UNCHANGED <<files, torn, rec, fate>>
    /\ UNCHANGED <<writer, flock>>

(* A record that is not due, or beyond the batch, stays. *)
DrainSkip(d) ==
    /\ drain[d].pc = "next"
    /\ \E m \in Oldest(drain[d].todo) :
        /\ m \notin torn /\ ~Expired(m)
        /\ rec[m].wait > 0 \/ drain[d].tried >= BatchSize
        /\ drain' = [drain EXCEPT ![d].todo = @ \ {m}]
    /\ UNCHANGED <<files, rec, torn, fate, writer, flock, faults>>

(* deliver(message): success, failure, or accepted with the answer lost. *)
DrainDeliver(d) ==
    /\ drain[d].pc = "next" /\ drain[d].tried < BatchSize
    /\ \E m \in Oldest(drain[d].todo), pc \in {"unlink", "rewrite"} :
        /\ m \notin torn /\ ~Expired(m) /\ rec[m].wait = 0
        /\ drain' = [drain EXCEPT ![d] =
                [pc |-> pc, todo |-> @.todo \ {m}, tried |-> @.tried + 1, m |-> m]]
        /\ \/ pc = "unlink" /\ NoFault /\ fate' = [fate EXCEPT ![m] = "yes"]
           \/ pc = "rewrite" /\ NoFault /\ UNCHANGED fate
           \/ pc = "rewrite" /\ Fault /\ fate' = [fate EXCEPT ![m] = "lost"]
    /\ UNCHANGED <<files, rec, torn, writer, flock>>

(* After a success: unlink; a failing unlink leaves the message due. *)
DrainUnlink(d) ==
    /\ drain[d].pc = "unlink"
    /\ LET m == drain[d].m IN
        \/ NoFault /\ Unlink(m)
        \/ Fault /\ fate' = [fate EXCEPT ![m] = "lost"] /\ UNCHANGED <<files, rec, torn>>
    /\ drain' = [drain EXCEPT ![d] = [@ EXCEPT !.pc = "next", !.m = NoMsg]]
    /\ UNCHANGED <<writer, flock>>

BackOff(m, n) ==
    /\ \E delay \in 1 .. MaxWait :
            rec' = [rec EXCEPT ![m] = [@ EXCEPT !.attempts = n, !.wait = delay]]
    /\ UNCHANGED <<files, torn, fate>>

(* Mutant: one attempt too many is stored. *)
RetryLate(m, n) ==
    \/ n > MaxAttempts /\ faults' = faults /\ Unlink(m)
    \/ n <= MaxAttempts /\ faults' = faults /\ BackOff(m, n)
    \/ Fault /\ UNCHANGED <<files, rec, torn, fate>>

(* Mutant: the old record is removed before the new one is written. *)
RetryUnsafe(m, n) ==
    \/ n >= MaxAttempts /\ faults' = faults /\ Unlink(m)
    \/ n < MaxAttempts /\ faults' = faults /\ BackOff(m, n)
    \/ Fault /\ Unlink(m)

(* A failing write or unlink leaves the previous record. *)
Retry(m, n) ==
    \/ n >= MaxAttempts /\ NoFault /\ Unlink(m)
    \/ n < MaxAttempts /\ NoFault /\ BackOff(m, n)
    \/ Fault /\ UNCHANGED <<files, rec, torn, fate>>

(* After a failure: count it, give up at MAX_ATTEMPTS, else back off with *)
(* jitter.                                                                 *)
DrainRewrite(d) ==
    /\ drain[d].pc = "rewrite"
    /\ Retry(drain[d].m, rec[drain[d].m].attempts + 1)
    /\ drain' = [drain EXCEPT ![d] = [@ EXCEPT !.pc = "next", !.m = NoMsg]]
    /\ UNCHANGED <<writer, flock>>

DrainEnd(d) ==
    /\ drain[d].pc = "next" /\ drain[d].todo = {}
    /\ drain' = [drain EXCEPT ![d] = IdleDrain]
    /\ flock' = NoDrain
    /\ UNCHANGED <<files, rec, torn, fate, writer, faults>>

DrainStep(d) ==
    \/ DrainDiscard(d) \/ DrainSkip(d) \/ DrainDeliver(d)
    \/ DrainUnlink(d) \/ DrainRewrite(d) \/ DrainEnd(d)

-----------------------------------------------------------------------------
(* The world. *)

KillWriter(w) ==
    /\ writer[w].pc # "idle" /\ Fault
    /\ writer' = [writer EXCEPT ![w] = IdleWriter]
    /\ UNCHANGED <<files, rec, torn, fate, drain, flock>>

(* Killed between an accepted delivery and the unlink, a drain has         *)
(* delivered a message that is still due.                                  *)
Unfinished(m) == \E d \in Drainers : drain[d].pc = "unlink" /\ drain[d].m = m

(* A killed drain: the kernel releases the lock. *)
KillDrain(d) ==
    /\ drain[d].pc # "idle" /\ Fault
    /\ fate' = [m \in Msgs |->
            IF drain[d].pc = "unlink" /\ drain[d].m = m THEN "lost" ELSE fate[m]]
    /\ drain' = [drain EXCEPT ![d] = IdleDrain]
    /\ flock' = NoDrain
    /\ UNCHANGED <<files, rec, torn, writer>>

(* A power failure tears unsynced files; no process is running after it. *)
PowerFailure ==
    /\ Fault
    /\ \E S \in SUBSET files : torn' = torn \cup S
    /\ writer' = [w \in Writers |-> IdleWriter]
    /\ drain' = [d \in Drainers |-> IdleDrain]
    /\ fate' = [m \in Msgs |-> IF Unfinished(m) THEN "lost" ELSE fate[m]]
    /\ flock' = NoDrain
    /\ UNCHANGED <<files, rec>>

Less(n) == IF n = 0 THEN 0 ELSE n - 1

(* A tick is minutes to hours; a send or a drain takes seconds. *)
OutboxTick ==
    /\ flock = NoDrain /\ \A w \in Writers : writer[w].pc = "idle"
    /\ rec' = [m \in Msgs |->
            IF m \in files
            THEN [rec[m] EXCEPT !.life = Less(@), !.wait = Less(@)] ELSE rec[m]]
    /\ UNCHANGED <<files, torn, fate, writer, drain, flock, faults>>

-----------------------------------------------------------------------------
Record == [life : 0 .. TTL, wait : 0 .. MaxWait, attempts : 0 .. (MaxAttempts - 1)]

(* The type of the outbox state. *)
OutboxTypeOK ==
    /\ files \subseteq Msgs /\ torn \subseteq files
    /\ rec \in [Msgs -> Record]
    /\ fate \in [Msgs -> {"no", "yes", "lost"}]
    /\ writer \in [Writers -> {IdleWriter} \cup [pc : {"list", "write"}, m : Msgs]]
    /\ drain \in [Drainers ->
            [pc : {"idle", "next"}, todo : SUBSET Msgs, tried : Nat, m : {NoMsg}]
            \cup [pc : {"unlink", "rewrite"}, todo : SUBSET Msgs, tried : Nat, m : Msgs]]
    /\ flock \in Drainers \cup {NoDrain}
    /\ faults \in 0 .. MaxFaults
=============================================================================
