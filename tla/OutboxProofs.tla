---------------------------- MODULE OutboxProofs ----------------------------
(* Proofs about the outbox, for any number of writers, drains and          *)
(* messages that AlertDiagnostics composes.                                *)
EXTENDS AlertDiagnostics, FiniteSetTheorems, TLAPS

(* One disjunct per way a step changes the outbox variables. *)
OutboxNext ==
    \/ \E w \in Writers : Send(w) \/ EnqueueList(w) \/ EnqueueWrite(w) \/ KillWriter(w)
    \/ \E d \in Drainers : DrainStart(d) \/ DrainStep(d) \/ KillDrain(d)
    \/ PowerFailure \/ OutboxTick
    \/ (Fault /\ UNCHANGED <<files, rec, torn, fate, writer, drain, flock>>)
    \/ UNCHANGED outboxVars

(* Every step of the composition is one step of the outbox. *)
LEMMA NextIsOutboxNext == ASSUME [Next]_vars PROVE OutboxNext
<1>0. App \in Writers /\ Host \in Writers /\ Cron \in Drainers /\ Manual \in Drainers
  BY AlertAssumption
<1>1. CASE UNCHANGED vars
  BY <1>1 DEF vars, OutboxNext
<1>2. CASE CommandEnds
  BY <1>2 DEF CommandEnds, ReportSuccess, ReportFailure, OutboxNext, outboxVars
<1>3. CASE ReportFails
  BY <1>3 DEF ReportFails, OutboxNext
<1>4. CASE HostStep
  BY <1>0, <1>4 DEF HostStep, SendFailure, SendRecovered, HostEnqueue, ClearIncident,
                    HostDrain, OutboxNext
<1>5. CASE HostKilled
  BY <1>0, <1>5 DEF HostKilled, OutboxNext
<1>6. CASE AppSend \/ AppEnqueue \/ AppKilled
  BY <1>0, <1>6 DEF AppSend, AppEnqueue, AppKilled, OutboxNext
<1>7. CASE ManualStart \/ ManualStep \/ ManualKilled
  BY <1>0, <1>7 DEF ManualStart, ManualStep, ManualKilled, OutboxNext
<1>8. CASE Reboot \/ Tick
  BY <1>8 DEF Reboot, Tick, OutboxNext
<1> QED
  BY <1>1, <1>2, <1>3, <1>4, <1>5, <1>6, <1>7, <1>8 DEF Next

-----------------------------------------------------------------------------
(* The types are inductive. *)

(* Initially the outbox is well typed. *)
LEMMA TypeInit == ASSUME Init PROVE OutboxTypeOK
BY OutboxAssumption DEF Init, OutboxInit, OutboxTypeOK, Record, Fresh, IdleWriter, IdleDrain

(* Faults stay within their bound. *)
LEMMA FaultType == ASSUME OutboxTypeOK, Fault \/ NoFault PROVE faults' \in 0 .. MaxFaults
BY OutboxAssumption DEF OutboxTypeOK, Fault, NoFault

(* Removing a message keeps the types. *)
LEMMA UnlinkType ==
    ASSUME OutboxTypeOK, NEW m \in Msgs, Unlink(m)
    PROVE  /\ files' \subseteq Msgs /\ torn' \subseteq files'
           /\ rec' \in [Msgs -> Record]
           /\ fate' \in [Msgs -> {"no", "yes", "lost"}]
BY OutboxAssumption DEF OutboxTypeOK, Unlink, Record, Fresh

(* Sending and queueing a message keeps the types. *)
LEMMA WriterType ==
    ASSUME OutboxTypeOK, NEW w \in Writers,
           Send(w) \/ EnqueueList(w) \/ EnqueueWrite(w) \/ KillWriter(w)
    PROVE  OutboxTypeOK'
<1>1. CASE Send(w)
  <2>1. NewFile \subseteq Msgs
    BY DEF NewFile, FreeSlots
  <2>2. faults' \in 0 .. MaxFaults
    BY <1>1, FaultType DEF Send, NoFault, OutboxTypeOK
  <2> QED
    BY <1>1, <2>1, <2>2 DEF Send, OutboxTypeOK
<1>2. CASE EnqueueList(w)
  BY <1>2 DEF EnqueueList, OutboxTypeOK, IdleWriter
<1>3. CASE EnqueueWrite(w)
  <2>1. writer[w].m \in Msgs
    BY <1>3 DEF EnqueueWrite, OutboxTypeOK, IdleWriter
  <2>2. faults' \in 0 .. MaxFaults
    BY <1>3, FaultType DEF EnqueueWrite
  <2> QED
    BY <1>3, <2>1, <2>2 DEF EnqueueWrite, OutboxTypeOK
<1>4. CASE KillWriter(w)
  BY <1>4, FaultType DEF KillWriter, OutboxTypeOK
<1> QED
  BY <1>1, <1>2, <1>3, <1>4

(* A drain that goes on to its next message keeps its type. *)
LEMMA NextMessage ==
    ASSUME OutboxTypeOK, NEW d \in Drainers,
           drain' = [drain EXCEPT ![d] = [@ EXCEPT !.pc = "next", !.m = NoMsg]]
    PROVE  drain' \in [Drainers ->
            [pc : {"idle", "next"}, todo : SUBSET Msgs, tried : Nat, m : {NoMsg}]
            \cup [pc : {"unlink", "rewrite"}, todo : SUBSET Msgs, tried : Nat, m : Msgs]]
<1> DEFINE D == [pc : {"idle", "next"}, todo : SUBSET Msgs, tried : Nat, m : {NoMsg}]
                \cup [pc : {"unlink", "rewrite"}, todo : SUBSET Msgs, tried : Nat, m : Msgs]
           r == [drain[d] EXCEPT !.pc = "next", !.m = NoMsg]
<1>1. drain \in [Drainers -> D]
  BY DEF OutboxTypeOK
<1>2. r \in D
  <2>1. drain[d] \in D
    BY <1>1
  <2> QED
    BY <2>1
<1>3. drain' = [drain EXCEPT ![d] = r]
  OBVIOUS
<1> HIDE DEF D, r
<1>4. drain' \in [Drainers -> D]
  BY <1>1, <1>2, <1>3
<1> QED
  BY <1>4 DEF D

(* Every step of a drain keeps the types. *)
LEMMA DrainType ==
    ASSUME OutboxTypeOK, NEW d \in Drainers, DrainStart(d) \/ DrainStep(d) \/ KillDrain(d)
    PROVE  OutboxTypeOK'
<1>0. drain[d].todo \subseteq Msgs
  BY DEF OutboxTypeOK
<1>1. CASE DrainStart(d)
  BY <1>1 DEF DrainStart, OutboxTypeOK
<1>2. CASE DrainDiscard(d)
  <2>1. PICK m \in Oldest(drain[d].todo) :
            /\ drain' = [drain EXCEPT ![d].todo = @ \ {m}]
            /\ \/ NoFault /\ Unlink(m)
               \/ Fault /\ Unlink(m)
               \/ Fault /\ UNCHANGED <<files, torn, rec, fate>>
    BY <1>2 DEF DrainDiscard
  <2>2. m \in Msgs
    BY <1>0, <2>1 DEF Oldest
  <2>3. faults' \in 0 .. MaxFaults
    BY <2>1, FaultType
  <2>4. /\ files' \subseteq Msgs /\ torn' \subseteq files'
        /\ rec' \in [Msgs -> Record]
        /\ fate' \in [Msgs -> {"no", "yes", "lost"}]
    BY <2>1, <2>2, UnlinkType DEF OutboxTypeOK
  <2> QED
    BY <1>2, <2>1, <2>3, <2>4 DEF DrainDiscard, OutboxTypeOK
<1>3. CASE DrainSkip(d)
  BY <1>3 DEF DrainSkip, OutboxTypeOK
<1>4. CASE DrainDeliver(d)
  <2>1. PICK m \in Oldest(drain[d].todo), pc \in {"unlink", "rewrite"} :
            /\ drain' = [drain EXCEPT ![d] =
                  [pc |-> pc, todo |-> @.todo \ {m}, tried |-> @.tried + 1, m |-> m]]
            /\ Fault \/ NoFault
            /\ \/ fate' = [fate EXCEPT ![m] = "yes"]
               \/ UNCHANGED fate
               \/ fate' = [fate EXCEPT ![m] = "lost"]
    BY <1>4 DEF DrainDeliver
  <2>2. m \in Msgs
    BY <1>0, <2>1 DEF Oldest
  <2>3. faults' \in 0 .. MaxFaults
    BY <2>1, FaultType
  <2>4. fate' \in [Msgs -> {"no", "yes", "lost"}]
    BY <2>1, <2>2 DEF OutboxTypeOK
  <2>5. drain' \in [Drainers ->
            [pc : {"idle", "next"}, todo : SUBSET Msgs, tried : Nat, m : {NoMsg}]
            \cup [pc : {"unlink", "rewrite"}, todo : SUBSET Msgs, tried : Nat, m : Msgs]]
    BY <2>1, <2>2 DEF OutboxTypeOK
  <2> QED
    BY <1>4, <2>3, <2>4, <2>5 DEF DrainDeliver, OutboxTypeOK
<1>5. CASE DrainUnlink(d)
  <2>1. drain[d].m \in Msgs
    BY <1>5 DEF DrainUnlink, OutboxTypeOK
  <2>2. faults' \in 0 .. MaxFaults
    BY <1>5, FaultType DEF DrainUnlink
  <2>3. /\ files' \subseteq Msgs /\ torn' \subseteq files'
        /\ rec' \in [Msgs -> Record]
        /\ fate' \in [Msgs -> {"no", "yes", "lost"}]
    BY <1>5, <2>1, UnlinkType DEF DrainUnlink, OutboxTypeOK
  <2> QED
    BY <1>5, <2>2, <2>3, NextMessage DEF DrainUnlink, OutboxTypeOK
<1>6. CASE DrainRewrite(d)
  <2>1. drain[d].m \in Msgs
    BY <1>6 DEF DrainRewrite, OutboxTypeOK
  <2>2. faults' \in 0 .. MaxFaults
    BY <1>6, FaultType DEF DrainRewrite, Retry
  <2>3. CASE Unlink(drain[d].m)
    BY <1>6, <2>1, <2>2, <2>3, UnlinkType, NextMessage DEF DrainRewrite, OutboxTypeOK
  <2>4. CASE /\ rec[drain[d].m].attempts + 1 < MaxAttempts
             /\ BackOff(drain[d].m, rec[drain[d].m].attempts + 1)
    <3>1. rec' \in [Msgs -> Record]
      <4>1. PICK delay \in 1 .. MaxWait :
              rec' = [rec EXCEPT ![drain[d].m] =
                        [@ EXCEPT !.attempts = rec[drain[d].m].attempts + 1, !.wait = delay]]
        BY <2>4 DEF BackOff
      <4>2. rec[drain[d].m] \in Record /\ rec \in [Msgs -> Record]
        BY <2>1 DEF OutboxTypeOK
      <4>3. rec[drain[d].m].attempts + 1 \in 0 .. (MaxAttempts - 1) /\ delay \in 0 .. MaxWait
        BY <2>4, <4>2, OutboxAssumption DEF Record
      <4>4. [rec[drain[d].m] EXCEPT !.attempts = rec[drain[d].m].attempts + 1, !.wait = delay]
              \in Record
        BY <4>2, <4>3 DEF Record
      <4> QED
        BY <4>1, <4>2, <4>4
    <3> QED
      BY <1>6, <2>2, <2>4, <3>1, NextMessage DEF DrainRewrite, BackOff, OutboxTypeOK
  <2>5. CASE UNCHANGED <<files, rec, torn, fate>>
    BY <1>6, <2>2, <2>5, NextMessage DEF DrainRewrite, OutboxTypeOK
  <2> QED
    BY <1>6, <2>3, <2>4, <2>5 DEF DrainRewrite, Retry
<1>7. CASE DrainEnd(d)
  BY <1>7 DEF DrainEnd, OutboxTypeOK, IdleDrain
<1>8. CASE KillDrain(d)
  <2>1. faults' \in 0 .. MaxFaults
    BY <1>8, FaultType DEF KillDrain
  <2> QED
    BY <1>8, <2>1 DEF KillDrain, OutboxTypeOK, IdleDrain
<1> QED
  BY <1>1, <1>2, <1>3, <1>4, <1>5, <1>6, <1>7, <1>8 DEF DrainStep

(* A power failure keeps the types. *)
LEMMA PowerFailureType == ASSUME OutboxTypeOK, PowerFailure PROVE OutboxTypeOK'
<1>1. faults' \in 0 .. MaxFaults
  BY FaultType DEF PowerFailure
<1>2. fate' \in [Msgs -> {"no", "yes", "lost"}]
  BY DEF PowerFailure, OutboxTypeOK
<1> QED
  BY <1>1, <1>2 DEF PowerFailure, OutboxTypeOK, IdleDrain

(* So does the clock. *)
LEMMA TickType == ASSUME OutboxTypeOK, OutboxTick PROVE OutboxTypeOK'
<1>1. ASSUME NEW m \in Msgs
      PROVE  [rec[m] EXCEPT !.life = Less(@), !.wait = Less(@)] \in Record
  <2>1. rec[m] \in Record
    BY DEF OutboxTypeOK
  <2>2. \A k \in Nat : \A n \in 0 .. k : Less(n) \in 0 .. k
    BY DEF Less
  <2>3. Less(rec[m].life) \in 0 .. TTL /\ Less(rec[m].wait) \in 0 .. MaxWait
    BY <2>1, <2>2, OutboxAssumption DEF Record
  <2> QED
    BY <2>1, <2>3 DEF Record
<1>2. rec' \in [Msgs -> Record]
  BY <1>1 DEF OutboxTick, OutboxTypeOK
<1> QED
  BY <1>2 DEF OutboxTick, OutboxTypeOK

(* Every step keeps the types. *)
LEMMA TypeStep == ASSUME OutboxTypeOK, OutboxNext PROVE OutboxTypeOK'
<1>1. CASE Fault /\ UNCHANGED <<files, rec, torn, fate, writer, drain, flock>>
  BY <1>1, FaultType DEF OutboxTypeOK
<1>2. CASE UNCHANGED outboxVars
  BY <1>2 DEF outboxVars, OutboxTypeOK
<1> QED
  BY <1>1, <1>2, WriterType, DrainType, PowerFailureType, TickType DEF OutboxNext

-----------------------------------------------------------------------------
(* The bound of the queue.  A writer that has been admitted and has not    *)
(* yet written counts as a file: its admission saw fewer than MAX_MESSAGES *)
(* files, and at most all writers are admitted at once.                    *)

Admitted == {w \in Writers : writer[w].pc = "write"}

Room ==
    /\ IsFiniteSet(files)
    /\ Cardinality(files) + Cardinality(Admitted) <= MaxMessages + Cardinality(Writers) - 1

(* No more senders are past the size check than there are senders. *)
LEMMA AdmittedFinite ==
    /\ IsFiniteSet(Admitted) /\ Cardinality(Admitted) \in Nat
    /\ Cardinality(Admitted) <= Cardinality(Writers)
    /\ Cardinality(Writers) \in Nat /\ Cardinality(Writers) # 0
<1>1. IsFiniteSet(Writers) /\ Writers # {}
  BY OutboxAssumption
<1>2. Admitted \subseteq Writers
  BY DEF Admitted
<1>3. IsFiniteSet(Admitted) /\ Cardinality(Admitted) <= Cardinality(Writers)
  BY <1>1, <1>2, FS_Subset
<1> QED
  BY <1>1, <1>3, FS_CardinalityType, FS_EmptySet

(* Initially there is room. *)
LEMMA RoomInit == ASSUME Init PROVE Room
<1>1. files = {} /\ Admitted = {}
  BY DEF Init, OutboxInit, Admitted, IdleWriter
<1>2. IsFiniteSet(files) /\ Cardinality(files) = 0 /\ Cardinality(Admitted) = 0
  BY <1>1, FS_EmptySet
<1> QED
  BY <1>2, AdmittedFinite, OutboxAssumption DEF Room

(* Fewer files and fewer admitted writers leave room. *)
LEMMA RoomShrinks ==
    ASSUME Room, files' \subseteq files, Admitted' \subseteq Admitted
    PROVE  Room'
<1>1. IsFiniteSet(files') /\ Cardinality(files') <= Cardinality(files)
  BY FS_Subset DEF Room
<1>2. IsFiniteSet(Admitted') /\ Cardinality(Admitted') <= Cardinality(Admitted)
  BY AdmittedFinite, FS_Subset
<1>3. /\ Cardinality(files) \in Nat /\ Cardinality(files') \in Nat
      /\ Cardinality(Admitted) \in Nat /\ Cardinality(Admitted') \in Nat
  BY <1>1, <1>2, AdmittedFinite, FS_CardinalityType DEF Room
<1> QED
  BY <1>1, <1>2, <1>3, AdmittedFinite, OutboxAssumption DEF Room

(* Every step keeps the files and the admitted senders within the bound. *)
LEMMA RoomStep == ASSUME OutboxTypeOK, Room, OutboxNext PROVE Room'
<1>1. ASSUME NEW w \in Writers, EnqueueList(w) PROVE Room'
  <2>1. CASE Cardinality(files) >= MaxMessages
    <3>1. files' = files /\ Admitted' \subseteq Admitted
      BY <1>1, <2>1 DEF EnqueueList, Admitted, IdleWriter, OutboxTypeOK
    <3> QED
      BY <3>1, RoomShrinks
  <2>2. CASE ~(Cardinality(files) >= MaxMessages)
    <3>1. Cardinality(files) \in Nat /\ files' = files
      BY <1>1, FS_CardinalityType DEF Room, EnqueueList
    <3>2. Cardinality(Admitted') \in Nat /\ Cardinality(Admitted') <= Cardinality(Writers)
      <4>1. IsFiniteSet(Writers) /\ Admitted' \subseteq Writers
        BY OutboxAssumption DEF Admitted
      <4> QED
        BY <4>1, FS_Subset, FS_CardinalityType
    <3> QED
      BY <2>2, <3>1, <3>2, AdmittedFinite, OutboxAssumption DEF Room
  <2> QED
    BY <2>1, <2>2
<1>2. ASSUME NEW w \in Writers, EnqueueWrite(w) PROVE Room'
  <2>1. w \in Admitted /\ Admitted' = Admitted \ {w}
    BY <1>2 DEF EnqueueWrite, Admitted, IdleWriter, OutboxTypeOK
  <2>2. CASE files' = files
    BY <2>1, <2>2, RoomShrinks
  <2>3. CASE files' = files \cup {writer[w].m}
    <3>1. IsFiniteSet(files') /\ Cardinality(files') <= Cardinality(files) + 1
      <4> DEFINE m == writer[w].m
      <4>1. IsFiniteSet(files) /\ Cardinality(files) \in Nat
        BY FS_CardinalityType DEF Room
      <4>2. IsFiniteSet(files \cup {m})
        BY <4>1, FS_AddElement
      <4>3. \/ Cardinality(files \cup {m}) = Cardinality(files)
            \/ Cardinality(files \cup {m}) = Cardinality(files) + 1
        BY <4>1, FS_AddElement
      <4>4. files' = files \cup {m}
        BY <2>3
      <4> HIDE DEF m
      <4> QED
        BY <4>1, <4>2, <4>3, <4>4
    <3>2. Cardinality(Admitted') = Cardinality(Admitted) - 1
      BY <2>1, AdmittedFinite, FS_RemoveElement
    <3>3. Cardinality(files) \in Nat /\ Cardinality(files') \in Nat
      BY <3>1, FS_CardinalityType DEF Room
    <3> QED
      BY <3>1, <3>2, <3>3, AdmittedFinite, OutboxAssumption DEF Room
  <2> QED
    BY <1>2, <2>2, <2>3 DEF EnqueueWrite
<1>3. ASSUME NEW w \in Writers, Send(w) \/ KillWriter(w) PROVE Room'
  <2>1. files' = files /\ Admitted' \subseteq Admitted
    BY <1>3 DEF Send, KillWriter, Admitted, IdleWriter, OutboxTypeOK
  <2> QED
    BY <2>1, RoomShrinks
<1>4. ASSUME NEW d \in Drainers, DrainStart(d) \/ DrainStep(d) \/ KillDrain(d)
      PROVE  Room'
  <2>1. files' \subseteq files
    BY <1>4 DEF DrainStart, DrainStep, DrainDiscard, DrainSkip, DrainDeliver, DrainUnlink,
                DrainRewrite, DrainEnd, KillDrain, Unlink, Retry, BackOff
  <2>2. writer' = writer
    BY <1>4 DEF DrainStart, DrainStep, DrainDiscard, DrainSkip, DrainDeliver, DrainUnlink,
                DrainRewrite, DrainEnd, KillDrain
  <2>3. Admitted' = Admitted
    BY <2>2 DEF Admitted
  <2> QED
    BY <2>1, <2>3, RoomShrinks
<1>5. CASE PowerFailure
  <2>1. files' = files /\ Admitted' = {}
    BY <1>5 DEF PowerFailure, Admitted, IdleWriter
  <2> QED
    BY <2>1, RoomShrinks
<1>6. CASE \/ OutboxTick \/ UNCHANGED outboxVars
           \/ (Fault /\ UNCHANGED <<files, rec, torn, fate, writer, drain, flock>>)
  BY <1>6, RoomShrinks DEF OutboxTick, outboxVars, Admitted
<1> QED
  BY <1>1, <1>2, <1>3, <1>4, <1>5, <1>6 DEF OutboxNext

(* "bounded disk usage is essential": enqueue's unlocked check lets the    *)
(* directory exceed MAX_MESSAGES by at most one file per further writer,   *)
(* for any limit and any number of messages and faults.                    *)
THEOREM OutboxIsBounded == Spec => []QueueIsBounded
<1>1. Init => OutboxTypeOK /\ Room
  BY TypeInit, RoomInit
<1>2. OutboxTypeOK /\ Room /\ [Next]_vars => (OutboxTypeOK /\ Room)'
  BY NextIsOutboxNext, TypeStep, RoomStep
<1>3. Room => QueueIsBounded
  BY AdmittedFinite, FS_CardinalityType, OutboxAssumption DEF Room, QueueIsBounded
<1> QED
  BY <1>1, <1>2, <1>3, PTL DEF Spec

-----------------------------------------------------------------------------
(* Delivery.  The lock makes drains exclusive, and a message Telegram took *)
(* without a fault is in the hands of the drain that is about to unlink it.*)

OneDrain == \A d \in Drainers : drain[d].pc # "idle" => flock = d

TakenIsHeld == \A m \in Msgs : fate[m] = "yes" => Unfinished(m)

(* Initially nobody drains and nothing was delivered. *)
LEMMA DeliveryInit == ASSUME Init PROVE OneDrain /\ TakenIsHeld
BY DEF Init, OutboxInit, OneDrain, TakenIsHeld, IdleDrain

(* The lock admits one drain at a time. *)
LEMMA OneDrainStep == ASSUME OutboxTypeOK, OneDrain, OutboxNext PROVE OneDrain'
<1>1. ASSUME NEW d \in Drainers, DrainStart(d) PROVE OneDrain'
  <2>1. \A e \in Drainers : e # d => drain[e].pc = "idle"
    BY <1>1, OutboxAssumption DEF OneDrain, DrainStart
  <2> QED
    BY <1>1, <2>1 DEF OneDrain, DrainStart, OutboxTypeOK
<1>2. ASSUME NEW d \in Drainers, DrainStep(d) PROVE OneDrain'
  <2>1. drain[d].pc # "idle"
    BY <1>2 DEF DrainStep, DrainDiscard, DrainSkip, DrainDeliver, DrainUnlink, DrainRewrite, DrainEnd
  <2>2. \A e \in Drainers : e # d => drain[e].pc = "idle"
    BY <2>1 DEF OneDrain
  <2>3. \A e \in Drainers : e # d => drain'[e] = drain[e]
    BY <1>2 DEF DrainStep, DrainDiscard, DrainSkip, DrainDeliver, DrainUnlink, DrainRewrite,
                DrainEnd, OutboxTypeOK
  <2>4. drain'[d].pc = "idle" \/ flock' = flock
    BY <1>2 DEF DrainStep, DrainDiscard, DrainSkip, DrainDeliver, DrainUnlink, DrainRewrite,
                DrainEnd, OutboxTypeOK, IdleDrain
  <2> QED
    BY <2>1, <2>2, <2>3, <2>4 DEF OneDrain
<1>3. ASSUME NEW d \in Drainers, KillDrain(d) PROVE OneDrain'
  <2>1. \A e \in Drainers : e # d => drain[e].pc = "idle"
    BY <1>3 DEF OneDrain, KillDrain
  <2> QED
    BY <1>3, <2>1 DEF OneDrain, KillDrain, OutboxTypeOK, IdleDrain
<1>4. CASE PowerFailure
  BY <1>4 DEF OneDrain, PowerFailure, IdleDrain
<1>5. CASE UNCHANGED <<drain, flock>>
  BY <1>5 DEF OneDrain
<1> QED
  BY <1>1, <1>2, <1>3, <1>4, <1>5
  DEF OutboxNext, Send, EnqueueList, EnqueueWrite, KillWriter, OutboxTick, outboxVars

(* Steps of a drain that is about to deliver: no message is "yes". *)
LEMMA NothingHeld ==
    ASSUME OneDrain, TakenIsHeld, NEW d \in Drainers, drain[d].pc \in {"next", "rewrite"}
    PROVE  \A m \in Msgs : fate[m] # "yes"
BY DEF OneDrain, TakenIsHeld, Unfinished

(* A message delivered and still on disk is the one a drain is about to    *)
(* remove.                                                                 *)
LEMMA TakenStep ==
    ASSUME OutboxTypeOK, OneDrain, TakenIsHeld, OutboxNext PROVE TakenIsHeld'
<1>1. CASE \E w \in Writers : Send(w) \/ EnqueueList(w) \/ EnqueueWrite(w) \/ KillWriter(w)
  BY <1>1 DEF Send, EnqueueList, EnqueueWrite, KillWriter, TakenIsHeld, Unfinished, OutboxTypeOK
<1>2. ASSUME NEW d \in Drainers, DrainStart(d) PROVE TakenIsHeld'
  BY <1>2 DEF DrainStart, TakenIsHeld, Unfinished, OutboxTypeOK
<1>3. ASSUME NEW d \in Drainers, DrainDiscard(d) \/ DrainSkip(d) \/ DrainRewrite(d) PROVE TakenIsHeld'
  <2>1. \A m \in Msgs : fate[m] # "yes"
    BY <1>3, NothingHeld DEF DrainDiscard, DrainSkip, DrainRewrite
  <2>2. \A m \in Msgs : fate'[m] # "yes"
    BY <1>3, <2>1 DEF DrainDiscard, DrainSkip, DrainRewrite, Retry, BackOff, Unlink, OutboxTypeOK
  <2> QED
    BY <2>2 DEF TakenIsHeld
<1>4. ASSUME NEW d \in Drainers, DrainDeliver(d) PROVE TakenIsHeld'
  <2>1. \A m \in Msgs : fate[m] # "yes"
    BY <1>4, NothingHeld DEF DrainDeliver
  <2>2. PICK m \in Oldest(drain[d].todo), pc \in {"unlink", "rewrite"} :
            /\ drain' = [drain EXCEPT ![d] =
                  [pc |-> pc, todo |-> @.todo \ {m}, tried |-> @.tried + 1, m |-> m]]
            /\ \/ pc = "unlink" /\ fate' = [fate EXCEPT ![m] = "yes"]
               \/ UNCHANGED fate
               \/ fate' = [fate EXCEPT ![m] = "lost"]
    BY <1>4 DEF DrainDeliver
  <2>3. drain'[d].pc = pc /\ drain'[d].m = m
    BY <2>2 DEF OutboxTypeOK
  <2>4. \A n \in Msgs : fate'[n] = "yes" => n = m /\ pc = "unlink"
    BY <2>1, <2>2 DEF OutboxTypeOK
  <2> QED
    BY <2>3, <2>4 DEF TakenIsHeld, Unfinished
<1>5. ASSUME NEW d \in Drainers, DrainUnlink(d) PROVE TakenIsHeld'
  <2>1. \A n \in Msgs : fate[n] = "yes" => n = drain[d].m
    BY <1>5 DEF DrainUnlink, OneDrain, TakenIsHeld, Unfinished
  <2>2. \A n \in Msgs : fate'[n] # "yes"
    BY <1>5, <2>1 DEF DrainUnlink, Unlink, OutboxTypeOK
  <2> QED
    BY <2>2 DEF TakenIsHeld
<1>6. ASSUME NEW d \in Drainers, DrainEnd(d) PROVE TakenIsHeld'
  <2>1. \A m \in Msgs : fate[m] # "yes"
    BY <1>6, NothingHeld DEF DrainEnd
  <2> QED
    BY <1>6, <2>1 DEF DrainEnd, TakenIsHeld
<1>7. ASSUME NEW d \in Drainers, KillDrain(d) PROVE TakenIsHeld'
  <2>1. \A n \in Msgs : fate[n] = "yes" => drain[d].pc = "unlink" /\ n = drain[d].m
    BY <1>7 DEF KillDrain, OneDrain, TakenIsHeld, Unfinished
  <2>2. \A n \in Msgs : fate'[n] # "yes"
    BY <1>7, <2>1 DEF KillDrain, OutboxTypeOK
  <2> QED
    BY <2>2 DEF TakenIsHeld
<1>8. CASE PowerFailure
  <2>1. \A n \in Msgs : fate'[n] # "yes"
    BY <1>8 DEF PowerFailure, TakenIsHeld, OutboxTypeOK
  <2> QED
    BY <2>1 DEF TakenIsHeld
<1>9. CASE UNCHANGED <<fate, drain>>
  BY <1>9 DEF TakenIsHeld, Unfinished
<1> QED
  BY <1>1, <1>2, <1>3, <1>4, <1>5, <1>6, <1>7, <1>8, <1>9
  DEF OutboxNext, DrainStep, OutboxTick, outboxVars

(* A drain never hands Telegram a message Telegram has already taken,      *)
(* unless a fault hid that from POMA: flock and the order deliver, unlink  *)
(* make it so for any number of messages and whatever drains and kills     *)
(* interleave.                                                             *)
THEOREM DeliveryIsOnceWithoutFaults == Spec => DuplicatesAreExcused
<1> DEFINE IInv == OutboxTypeOK /\ OneDrain /\ TakenIsHeld
<1>1. Init => IInv
  BY TypeInit, DeliveryInit
<1>2. IInv /\ [Next]_vars => IInv'
  BY NextIsOutboxNext, TypeStep, OneDrainStep, TakenStep
<1>3. IInv /\ [Next]_vars =>
        [\A d \in Drainers :
            (drain[d].pc = "next" /\ drain'[d].pc = "unlink")
               => fate[drain'[d].m] # "yes"]_vars
  <2> SUFFICES ASSUME IInv, IInv', NEW d \in Drainers,
                      drain[d].pc = "next", drain'[d].pc = "unlink"
               PROVE  fate[drain'[d].m] # "yes"
    BY <1>2
  <2>1. drain'[d].m \in Msgs
    BY DEF OutboxTypeOK
  <2> QED
    BY <2>1, NothingHeld
<1> QED
  BY <1>1, <1>2, <1>3, PTL DEF Spec, DuplicatesAreExcused

-----------------------------------------------------------------------------
(* Loss.  What a drain is about to unlink after a delivery, Telegram has   *)
(* taken: no sender gets the slot of a message in a drain's hands, and no  *)
(* other drain is at work.                                                 *)

DeliveredIsTaken == \A d \in Drainers : drain[d].pc = "unlink" => fate[drain[d].m] # "no"

(* A new file takes a slot that is neither in use nor held by a drain. *)
LEMMA NewFileIsFree ==
    ASSUME NEW m \in NewFile, NEW d \in Drainers PROVE m \in Msgs \ files /\ m # drain[d].m
<1>1. m \in FreeSlots
  BY DEF NewFile
<1> QED
  BY <1>1 DEF FreeSlots, InFlight

(* A drain removes a message as done only once it was delivered. *)
LEMMA DeliveredStep ==
    ASSUME OutboxTypeOK, OneDrain, DeliveredIsTaken, OutboxNext PROVE DeliveredIsTaken'
<1>1. ASSUME NEW w \in Writers, Send(w) PROVE DeliveredIsTaken'
  <2>1. CASE UNCHANGED fate
    BY <1>1, <2>1 DEF Send, DeliveredIsTaken
  <2>2. ASSUME NEW m \in NewFile, NEW f, fate' = [fate EXCEPT ![m] = f] PROVE DeliveredIsTaken'
    <3> SUFFICES ASSUME NEW d \in Drainers, drain[d].pc = "unlink" PROVE fate'[drain[d].m] # "no"
      BY <1>1 DEF Send, DeliveredIsTaken
    <3>1. drain[d].m # m /\ drain[d].m \in Msgs
      BY NewFileIsFree DEF OutboxTypeOK
    <3> QED
      BY <2>2, <3>1 DEF DeliveredIsTaken, OutboxTypeOK
  <2> QED
    BY <1>1, <2>1, <2>2 DEF Send
<1>2. ASSUME NEW w \in Writers, EnqueueList(w) \/ EnqueueWrite(w) \/ KillWriter(w)
      PROVE DeliveredIsTaken'
  BY <1>2 DEF EnqueueList, EnqueueWrite, KillWriter, DeliveredIsTaken
<1>3. ASSUME NEW d \in Drainers, DrainStart(d) PROVE DeliveredIsTaken'
  BY <1>3 DEF DrainStart, DeliveredIsTaken, OutboxTypeOK
<1>4. ASSUME NEW d \in Drainers, DrainDeliver(d) PROVE DeliveredIsTaken'
  <2>1. PICK m \in Oldest(drain[d].todo), pc \in {"unlink", "rewrite"} :
            /\ drain' = [drain EXCEPT ![d] =
                  [pc |-> pc, todo |-> @.todo \ {m}, tried |-> @.tried + 1, m |-> m]]
            /\ pc = "unlink" => fate' = [fate EXCEPT ![m] = "yes"]
    BY <1>4 DEF DrainDeliver
  <2>2. m \in Msgs
    BY DEF Oldest, OutboxTypeOK
  <2>3. drain'[d].pc = pc /\ drain'[d].m = m
    BY <2>1 DEF OutboxTypeOK
  <2>4. \A e \in Drainers \ {d} : drain'[e] = drain[e] /\ drain[e].pc = "idle"
    BY <1>4, <2>1 DEF OneDrain, OutboxTypeOK, DrainDeliver
  <2> QED
    BY <2>1, <2>2, <2>3, <2>4 DEF DeliveredIsTaken, OutboxTypeOK
<1>5. ASSUME NEW d \in Drainers,
             DrainDiscard(d) \/ DrainSkip(d) \/ DrainUnlink(d) \/ DrainRewrite(d)
             \/ DrainEnd(d) \/ KillDrain(d)
      PROVE DeliveredIsTaken'
  <2>1. \A e \in Drainers \ {d} : drain'[e] = drain[e] /\ drain[e].pc = "idle"
    BY <1>5 DEF OneDrain, OutboxTypeOK, DrainDiscard, DrainSkip, DrainUnlink, DrainRewrite,
                DrainEnd, KillDrain
  <2>2. drain'[d].pc # "unlink"
    <3>1. CASE DrainDiscard(d) \/ DrainSkip(d)
      <4>1. PICK m : drain' = [drain EXCEPT ![d].todo = @ \ {m}]
        BY <3>1 DEF DrainDiscard, DrainSkip
      <4>2. drain[d].pc = "next"
        BY <3>1 DEF DrainDiscard, DrainSkip
      <4> QED
        BY <4>1, <4>2 DEF OutboxTypeOK
    <3>2. CASE DrainUnlink(d) \/ DrainRewrite(d)
      <4>1. drain' = [drain EXCEPT ![d] = [@ EXCEPT !.pc = "next", !.m = NoMsg]]
        BY <3>2 DEF DrainUnlink, DrainRewrite
      <4> QED
        BY <4>1 DEF OutboxTypeOK
    <3>3. CASE DrainEnd(d) \/ KillDrain(d)
      BY <3>3 DEF OutboxTypeOK, DrainEnd, KillDrain, IdleDrain
    <3> QED
      BY <1>5, <3>1, <3>2, <3>3
  <2> QED
    BY <2>1, <2>2 DEF DeliveredIsTaken
<1>6. CASE PowerFailure
  BY <1>6 DEF PowerFailure, DeliveredIsTaken, IdleDrain
<1>7. CASE UNCHANGED <<fate, drain>>
  BY <1>7 DEF DeliveredIsTaken
<1> QED
  BY <1>1, <1>2, <1>3, <1>4, <1>5, <1>6, <1>7
  DEF OutboxNext, DrainStep, OutboxTick, outboxVars

(* Why a message may leave the directory. *)
Excused(m) ==
    \/ fate[m] # "no" \/ m \in torn
    \/ rec[m].life = 0 \/ rec[m].attempts + 1 >= MaxAttempts
    \/ /\ faults' # faults
       /\ \E d \in Drainers : drain[d].pc = "next" /\ m \in drain[d].todo

(* A message leaves the outbox only for a reason: delivered, unreadable,   *)
(* expired, out of attempts, or found unreadable by a read that fails.     *)
LEMMA RemovedIsExcused ==
    ASSUME OutboxTypeOK, DeliveredIsTaken, OutboxNext, NEW m \in files, m \notin files'
    PROVE  Excused(m)
<1>0. rec[m].attempts \in Nat /\ faults \in Nat /\ MaxAttempts \in Nat
  BY OutboxAssumption DEF OutboxTypeOK, Record
<1>1. ASSUME NEW d \in Drainers, DrainDiscard(d) PROVE Excused(m)
  <2>1. m \in drain[d].todo /\ (m \in torn \/ Expired(m) \/ Fault)
    BY <1>1 DEF DrainDiscard, Unlink, Oldest
  <2>2. drain[d].pc = "next"
    BY <1>1 DEF DrainDiscard
  <2> QED
    BY <1>0, <2>1, <2>2 DEF Excused, Expired, Fault
<1>2. ASSUME NEW d \in Drainers, DrainUnlink(d) PROVE Excused(m)
  BY <1>2 DEF DrainUnlink, Unlink, DeliveredIsTaken, Excused
<1>3. ASSUME NEW d \in Drainers, DrainRewrite(d) PROVE Excused(m)
  <2>1. m = drain[d].m /\ rec[m].attempts + 1 >= MaxAttempts
    BY <1>3 DEF DrainRewrite, Retry, BackOff, Unlink
  <2> QED
    BY <2>1 DEF Excused
<1> QED
  BY <1>1, <1>2, <1>3
  DEF OutboxNext, DrainStep, DrainStart, DrainSkip, DrainDeliver, DrainEnd, KillDrain, Send,
      EnqueueList, EnqueueWrite, KillWriter, PowerFailure, OutboxTick, outboxVars

(* "never delete a valid unsent message" (telegram_outbox.py): for any     *)
(* limits, faults and interleaving, drain removes a message only if        *)
(* Telegram took it, it is torn, expired or out of attempts, or reading it *)
(* failed in that step.                                                    *)
THEOREM NothingSilentlyLost == Spec => NoSilentLoss
<1> DEFINE IInv == OutboxTypeOK /\ OneDrain /\ DeliveredIsTaken
<1>1. Init => IInv
  <2>1. Init => DeliveredIsTaken
    BY DEF Init, OutboxInit, DeliveredIsTaken, IdleDrain
  <2> QED
    BY <2>1, TypeInit, DeliveryInit
<1>2. IInv /\ [Next]_vars => IInv'
  BY NextIsOutboxNext, TypeStep, OneDrainStep, DeliveredStep
<1>3. IInv /\ [Next]_vars => [\A m \in files \ files' : Excused(m)]_vars
  BY NextIsOutboxNext, RemovedIsExcused
<1> QED
  BY <1>1, <1>2, <1>3, PTL DEF Spec, NoSilentLoss, Excused


-----------------------------------------------------------------------------
(* The types of the composition: what run_logged.sh and the incident file  *)
(* add to the outbox.                                                      *)

Incidents == [active : BOOLEAN, count : 0 .. 4, category : Categories, age : 0 .. RepeatAfter]

(* The state file before the first incident. *)
LEMMA NoIncidentType == NoIncident \in Incidents
<1>1. (CHOOSE c \in Categories : TRUE) \in Categories
  BY AlertAssumption
<1> QED
  BY <1>1, AlertAssumption DEF NoIncident, Incidents

(* The incident's counters stop at their caps, and the script moves only   *)
(* between its own steps.                                                  *)
LEMMA AlertStep ==
    ASSUME TypeOK, [Next]_vars PROVE incident' \in Incidents /\ host' \in HostPC
<1>0. incident \in Incidents /\ host \in HostPC
  BY DEF TypeOK, Incidents
<1>1. ASSUME NEW category \in Categories, ReportFailure(category)
      PROVE  incident' \in Incidents /\ host' \in HostPC
  <2> DEFINE count == IF incident.active THEN NextCount(incident.count) ELSE 1
             age == IF MustNotify(category, count) THEN 0 ELSE incident.age
  <2>1. /\ incident' = [active |-> TRUE, count |-> count, category |-> category, age |-> age]
        /\ host' \in {"notify", "drain"}
    BY <1>1 DEF ReportFailure
  <2>2. count \in 0 .. 4
    BY <1>0 DEF NextCount, Incidents
  <2>3. age \in 0 .. RepeatAfter
    BY <1>0, AlertAssumption DEF Incidents
  <2> HIDE DEF count, age
  <2> QED
    BY <2>1, <2>2, <2>3 DEF Incidents, HostPC
<1>2. CASE ReportSuccess \/ ReportFails \/ HostKilled
  BY <1>0, <1>2 DEF ReportSuccess, ReportFails, HostKilled, HostPC
<1>3. CASE SendFailure \/ SendRecovered \/ HostEnqueue \/ HostDrain
  BY <1>0, <1>3, Zenon DEF SendFailure, SendRecovered, HostEnqueue, HostDrain, HostPC
<1>4. CASE ClearIncident \/ Reboot
  BY <1>0, <1>4, NoIncidentType DEF ClearIncident, Reboot, HostPC
<1>5. CASE UNCHANGED alertVars
  BY <1>0, <1>5 DEF alertVars
<1>6. CASE Tick
  <2>1. incident' = [incident EXCEPT !.age = IF incident.active /\ @ < RepeatAfter THEN @ + 1 ELSE @]
    BY <1>6 DEF Tick
  <2>2. (IF incident.active /\ incident.age < RepeatAfter THEN incident.age + 1 ELSE incident.age)
          \in 0 .. RepeatAfter
    BY <1>0, AlertAssumption DEF Incidents
  <2> QED
    BY <1>0, <1>6, <2>1, <2>2 DEF Incidents, Tick
<1>7. CASE AppSend \/ AppEnqueue \/ AppKilled \/ ManualStart \/ ManualStep \/ ManualKilled
           \/ UNCHANGED vars
  BY <1>5, <1>7, Zenon DEF AppSend, AppEnqueue, AppKilled, ManualStart, ManualStep, ManualKilled,
     vars
<1> QED
  BY <1>1, <1>2, <1>3, <1>4, <1>6, <1>7, Zenon DEF Next, CommandEnds, HostStep

(* For any limits and fault budget, the state keeps its types: attempts    *)
(* and back-off stay below their caps, the incident's counters too, and a  *)
(* drain's message is one of the directory.                                *)
THEOREM AlertTypes == Spec => []TypeOK
<1>1. Init => TypeOK
  <2>1. Init => incident \in Incidents /\ host \in HostPC
    BY NoIncidentType DEF Init, HostPC
  <2> QED
    BY <2>1, TypeInit DEF TypeOK, Incidents
<1>2. TypeOK /\ [Next]_vars => TypeOK'
  <2>1. TypeOK /\ [Next]_vars => OutboxTypeOK'
    BY NextIsOutboxNext, TypeStep DEF TypeOK
  <2>2. TypeOK /\ [Next]_vars => incident' \in Incidents /\ host' \in HostPC
    BY AlertStep
  <2> QED
    BY <2>1, <2>2, Zenon DEF TypeOK, Incidents
<1> QED
  BY <1>1, <1>2, PTL DEF Spec

=============================================================================
