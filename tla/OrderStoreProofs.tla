-------------------------- MODULE OrderStoreProofs --------------------------
(***************************************************************************)
(* Proofs about OrderStore, for every set of keys and rows and every       *)
(* length of the log: the type invariant, that the cache is never stale,   *)
(* and that the two files implement the ledger of module Ledger.           *)
(***************************************************************************)
EXTENDS OrderStore, WellFoundedInduction, TLAPS

(* A non-empty set of line numbers has a largest member. *)
LEMMA LargestExists ==
    ASSUME NEW n \in Nat, NEW S \in SUBSET (1..n), S # {}
    PROVE  \E i \in S : \A j \in S : j <= i
<1> DEFINE T == {m \in Nat : n - m \in S}
<1>1. T \subseteq Nat /\ T # {}
  <2>1. PICK i \in S : TRUE
    OBVIOUS
  <2>2. n - i \in T
    BY <2>1
  <2> QED
    BY <2>2
<1>2. PICK x \in T : \A y \in T : ~ (<<y, x>> \in OpToRel(<, Nat))
  BY <1>1, NatLessThanWellFounded, WFMin, Zenon
<1>3. \A y \in T : ~ (y < x)
  BY <1>2 DEF OpToRel
<1>4. n - x \in S
  OBVIOUS
<1>5. ASSUME NEW j \in S PROVE j <= n - x
  <2>1. n - j \in T
    OBVIOUS
  <2>2. ~ (n - j < x)
    BY <2>1, <1>3
  <2> QED
    BY <2>2
<1> QED
  BY <1>4, <1>5

(* LastLine picks the last line of a key that has one. *)
LEMMA LastLineIsLast ==
    ASSUME NEW lg, NEW n \in Nat, NEW k, LinesOf(lg, n, k) # {}
    PROVE  /\ LastLine(lg, n, k) \in LinesOf(lg, n, k)
           /\ \A j \in LinesOf(lg, n, k) : j <= LastLine(lg, n, k)
<1>1. LinesOf(lg, n, k) \in SUBSET (1..n)
  BY DEF LinesOf
<1>2. \E i \in LinesOf(lg, n, k) : \A j \in LinesOf(lg, n, k) : j <= i
  BY <1>1, LargestExists
<1> QED
  BY <1>2, Zenon DEF LastLine

(* The dictionary depends on the lines read, and on the snapshot only      *)
(* where no line overrides it.                                             *)
LEMMA LatestAgrees ==
    ASSUME NEW lg1, NEW lg2, NEW s1, NEW s2, NEW n \in Nat,
           \A i \in 1..n : lg1[i] = lg2[i],
           \A k \in Keys : LinesOf(lg1, n, k) = {} => s1[k] = s2[k]
    PROVE  Latest(lg1, s1, n) = Latest(lg2, s2, n)
<1>1. ASSUME NEW k \in Keys
      PROVE  /\ LinesOf(lg1, n, k) = LinesOf(lg2, n, k)
             /\ LinesOf(lg1, n, k) # {} =>
                   lg1[LastLine(lg1, n, k)].v = lg2[LastLine(lg2, n, k)].v
  <2>1. LinesOf(lg1, n, k) = LinesOf(lg2, n, k)
    BY DEF LinesOf
  <2>2. LastLine(lg1, n, k) = LastLine(lg2, n, k)
    BY <2>1, Zenon DEF LastLine
  <2>3. ASSUME LinesOf(lg1, n, k) # {} PROVE LastLine(lg1, n, k) \in 1..n
    BY <2>3, LastLineIsLast DEF LinesOf
  <2> QED
    BY <2>1, <2>2, <2>3
<1>2. ASSUME NEW k \in Keys
      PROVE  (IF LinesOf(lg1, n, k) = {} THEN s1[k] ELSE lg1[LastLine(lg1, n, k)].v)
             = (IF LinesOf(lg2, n, k) = {} THEN s2[k] ELSE lg2[LastLine(lg2, n, k)].v)
  BY <1>1
<1> QED
  BY <1>2, Zenon DEF Latest

(* An appended line is a dictionary update. *)
LEMMA LatestAppend ==
    ASSUME NEW lg \in Seq(Event), NEW snap, NEW e \in Event
    PROVE  Latest(Append(lg, e), snap, Len(lg) + 1)
             = [Latest(lg, snap, Len(lg)) EXCEPT ![e.k] = e.v]
<1> DEFINE n == Len(lg)
           lg2 == Append(lg, e)
<1>0. n \in Nat /\ lg2[n + 1] = e /\ \A i \in 1..n : lg2[i] = lg[i]
  OBVIOUS
<1>1. ASSUME NEW k \in Keys
      PROVE  Latest(lg2, snap, n + 1)[k] = IF k = e.k THEN e.v ELSE Latest(lg, snap, n)[k]
  <2>1. CASE k = e.k
    <3>1. n + 1 \in LinesOf(lg2, n + 1, k)
      BY <1>0, <2>1 DEF LinesOf
    <3>2. LastLine(lg2, n + 1, k) = n + 1
      <4>1. /\ LastLine(lg2, n + 1, k) \in LinesOf(lg2, n + 1, k)
            /\ \A j \in LinesOf(lg2, n + 1, k) : j <= LastLine(lg2, n + 1, k)
        <5>1. n + 1 \in Nat /\ LinesOf(lg2, n + 1, k) # {}
          BY <3>1, <1>0
        <5> QED
          BY <5>1, LastLineIsLast
      <4>2. LastLine(lg2, n + 1, k) \in 1..(n + 1) /\ n + 1 <= LastLine(lg2, n + 1, k)
        BY <4>1, <3>1 DEF LinesOf
      <4> QED
        BY <4>2, <1>0
    <3> QED
      BY <3>1, <3>2, <2>1, <1>0 DEF Latest
  <2>2. CASE k # e.k
    <3>1. LinesOf(lg2, n + 1, k) = LinesOf(lg, n, k)
      BY <1>0, <2>2 DEF LinesOf
    <3>2. LastLine(lg2, n + 1, k) = LastLine(lg, n, k)
      BY <3>1, Zenon DEF LastLine
    <3>3. ASSUME LinesOf(lg, n, k) # {} PROVE LastLine(lg, n, k) \in 1..n
      BY <3>3, <1>0, LastLineIsLast DEF LinesOf
    <3> QED
      BY <3>1, <3>2, <3>3, <2>2, <1>0 DEF Latest
  <2> QED
    BY <2>1, <2>2
<1> QED
  BY <1>1 DEF Latest

(* Reading a log yields one row per key. *)
LEMMA LatestType ==
    ASSUME NEW lg \in Seq(Event), NEW snap \in Maps, NEW n \in 0..Len(lg)
    PROVE  Latest(lg, snap, n) \in Maps
<1>1. ASSUME NEW k \in Keys, LinesOf(lg, n, k) # {}
      PROVE  lg[LastLine(lg, n, k)].v \in Rows
  <2>1. LastLine(lg, n, k) \in 1..n
    BY <1>1, LastLineIsLast DEF LinesOf
  <2>2. lg[LastLine(lg, n, k)] \in Event
    BY <2>1
  <2> QED
    BY <2>2 DEF Event
<1> QED
  BY <1>1 DEF Latest, Maps

-----------------------------------------------------------------------------
(* Facts about a state in which the invariant holds. *)

(* Every snapshot file content is a map of rows. *)
LEMMA SnapshotIsMap == Snapshots \subseteq Maps
BY StoreAssumption DEF Snapshots, Maps

(* What a reader sees, and what survives, are maps of rows. *)
LEMMA VisibleType ==
    ASSUME StoreTypeOK
    PROVE  Visible \in Maps
<1>1. open \in Maps
  BY SnapshotIsMap DEF StoreTypeOK
<1>2. log \in Seq(Event) /\ Len(log) \in 0..Len(log)
  BY DEF StoreTypeOK
<1> QED
  BY <1>1, <1>2, LatestType DEF Visible

(* _latest_entries returns what the files say, cached or not. *)
LEMMA EntriesAreVisible ==
    ASSUME StoreTypeOK, CacheInv
    PROVE  Entries = Visible
BY DEF Entries, CacheHit, CacheInv, Visible, StoreTypeOK

(* A cache that was just filled satisfies its invariant. *)
LEMMA CachedIsSound ==
    ASSUME StoreTypeOK
    PROVE  /\ Cached(Visible) \in [n : Nat, snap : Snapshots, map : Maps, valid : BOOLEAN]
           /\ Cached(Visible).n <= Len(log)
           /\ Cached(Visible).map = Latest(log, Cached(Visible).snap, Cached(Visible).n)
<1>1. Visible \in Maps
  BY VisibleType
<1>2. Len(log) \in Nat /\ open \in Snapshots
  BY DEF StoreTypeOK
<1> QED
  BY <1>1, <1>2 DEF Cached, Visible

(* The empty cache has the type of a cache. *)
LEMMA NoCacheType ==
    NoCache \in [n : Nat, snap : Snapshots, map : Maps, valid : BOOLEAN]
BY DEF NoCache, Snapshots, Maps

(* The snapshot that upsert writes keeps every row the log does not hold,  *)
(* so that what is visible does not change.                                *)
LEMMA ReplaceKeepsRows ==
    ASSUME StoreInv, up.pc = "save"
    PROVE  /\ OpenPart(up.entries) \in Snapshots
           /\ \A k \in Keys : LinesOf(log, Len(log), k) = {} =>
                 OpenPart(up.entries)[k] = open[k]
           /\ Latest(log, OpenPart(up.entries), Len(log)) = Visible
<1>1. up.entries = Visible /\ up.entries \in Maps
  BY VisibleType DEF StoreInv, UpsertInv
<1>2. OpenPart(up.entries) \in Snapshots
  BY <1>1, StoreAssumption DEF OpenPart, Snapshots, Maps
<1>3. ASSUME NEW k \in Keys, LinesOf(log, Len(log), k) = {}
      PROVE  OpenPart(up.entries)[k] = open[k]
  <2>1. up.entries[k] = open[k]
    BY <1>1, <1>3 DEF Visible, Latest
  <2>2. open[k] \notin TerminalRows
    BY StoreAssumption DEF StoreInv, StoreTypeOK, Snapshots
  <2> QED
    BY <2>1, <2>2 DEF OpenPart
<1>4. Len(log) \in Nat
  BY DEF StoreInv, StoreTypeOK
<1>5. Latest(log, open, Len(log)) = Latest(log, OpenPart(up.entries), Len(log))
  BY <1>3, <1>4, LatestAgrees
<1> QED
  BY <1>2, <1>3, <1>5 DEF Visible

(* Appending a line leaves the dictionaries of the older lines alone. *)
LEMMA AppendKeepsPrefixes ==
    ASSUME NEW lg \in Seq(Event), NEW snap, NEW e \in Event, NEW n \in 0..Len(lg)
    PROVE  Latest(Append(lg, e), snap, n) = Latest(lg, snap, n)
<1> DEFINE lg2 == Append(lg, e)
<1>1. n \in Nat /\ \A i \in 1..n : lg2[i] = lg[i]
  OBVIOUS
<1>2. \A k \in Keys : LinesOf(lg2, n, k) = {} => snap[k] = snap[k]
  OBVIOUS
<1> HIDE DEF lg2
<1>3. Latest(lg2, snap, n) = Latest(lg, snap, n)
  BY <1>1, <1>2, LatestAgrees
<1> QED
  BY <1>3 DEF lg2

(* What a power failure leaves is the dictionary of a prefix of the log.   *)
LEMMA PowerLossKeepsPrefix ==
    ASSUME StoreTypeOK, SnapshotsAgree, NEW n \in synced..Len(log),
           NEW snap \in {open, openDisk}
    PROVE  /\ SubSeq(log, 1, n) \in Seq(Event)
           /\ Len(SubSeq(log, 1, n)) = n
           /\ Latest(SubSeq(log, 1, n), snap, n) = Latest(log, open, n)
<1> DEFINE lg2 == SubSeq(log, 1, n)
<1>1. /\ log \in Seq(Event) /\ Len(log) \in Nat
      /\ n \in Nat /\ n <= Len(log) /\ synced <= n /\ synced \in Nat
  BY DEF StoreTypeOK
<1>2. lg2 \in Seq(Event) /\ Len(lg2) = n /\ \A i \in 1..n : log[i] = lg2[i]
  BY <1>1
<1>3. ASSUME NEW k \in Keys, LinesOf(log, n, k) = {}
      PROVE  open[k] = snap[k]
  <2>1. LinesOf(log, synced, k) = {}
    BY <1>1, <1>3 DEF LinesOf
  <2> QED
    BY <2>1 DEF SnapshotsAgree
<1>4. /\ n \in Nat
      /\ \A i \in 1..n : log[i] = lg2[i]
      /\ \A k \in Keys : LinesOf(log, n, k) = {} => open[k] = snap[k]
  BY <1>1, <1>2, <1>3
<1> HIDE DEF lg2
<1>5. Latest(log, open, n) = Latest(lg2, snap, n)
  BY ONLY <1>4, LatestAgrees
<1> QED
  BY <1>2, <1>5 DEF lg2

-----------------------------------------------------------------------------
(* The invariant holds for an empty store. *)
LEMMA StoreInitInv ==
    ASSUME StoreInit
    PROVE  StoreInv
<1>1. StoreTypeOK
  <2>1. log \in Seq(Event) /\ synced \in 0..Len(log)
    BY DEF StoreInit
  <2>4. torn \in BOOLEAN /\ open \in Snapshots /\ openDisk \in Snapshots
    BY Zenon DEF StoreInit
  <2>2. [k \in Keys |-> Absent] \in Maps
    BY DEF Maps
  <2>3. up \in [pc : {"idle", "append", "sync", "save", "publish"},
               k : Keys, v : Rows, entries : Maps, outcome : {"none", "ok", "raised"}]
    BY <2>2 DEF StoreInit
  <2> QED
    BY <2>1, <2>3, <2>4, NoCacheType DEF StoreInit, StoreTypeOK
<1>2. UpsertInv /\ CacheInv /\ SnapshotsAgree
  BY DEF StoreInit, UpsertInv, CacheInv, NoCache, SnapshotsAgree
<1> QED
  BY <1>1, <1>2 DEF StoreInv

(* Every step of OrderStore, crashes included, keeps the invariant. *)
LEMMA StoreNextInv ==
    ASSUME StoreInv, [StoreNext]_storeVars
    PROVE  StoreInv'
<1> USE DEF StoreInv
<1>1. ASSUME NEW k \in Keys, NEW v \in Rows, StartUpsert(k, v)
      PROVE  StoreInv'
  <2>1. Entries = Visible /\ Visible \in Maps
    BY EntriesAreVisible, VisibleType
  <2>2. StoreTypeOK'
    BY <1>1, <2>1, CachedIsSound DEF StartUpsert, StoreTypeOK, files, Maps
  <2>3. UpsertInv'
    BY <1>1, <2>1 DEF StartUpsert, UpsertInv, files, Visible, Latest, StoreTypeOK
  <2>4. CacheInv'
    BY <1>1, <2>1, CachedIsSound DEF StartUpsert, CacheInv, files
  <2>5. SnapshotsAgree'
    BY <1>1 DEF StartUpsert, SnapshotsAgree, files
  <2> QED
    BY <2>2, <2>3, <2>4, <2>5
<1>2. ASSUME Load
      PROVE  StoreInv'
  <2>1. Entries = Visible
    BY EntriesAreVisible
  <2>2. StoreTypeOK'
    BY <1>2, <2>1, CachedIsSound DEF Load, StoreTypeOK, files
  <2>3. UpsertInv' /\ SnapshotsAgree'
    BY <1>2 DEF Load, UpsertInv, SnapshotsAgree, files, Visible
  <2>4. CacheInv'
    BY <1>2, <2>1, CachedIsSound DEF Load, CacheInv, files
  <2> QED
    BY <2>2, <2>3, <2>4
<1>3. ASSUME AppendEvent
      PROVE  StoreInv'
  <2> DEFINE e == [k |-> up.k, v |-> up.v]
  <2>1. e \in Event /\ log \in Seq(Event) /\ Len(log') = Len(log) + 1 /\ log' \in Seq(Event)
    BY <1>3 DEF AppendEvent, StoreTypeOK, Event
  <2>2. StoreTypeOK'
    BY <1>3, <2>1 DEF AppendEvent, StoreTypeOK
  <2>3. Visible' = [Visible EXCEPT ![up.k] = up.v]
    <3>2. e.k = up.k /\ e.v = up.v
      OBVIOUS
    <3>3. log' = Append(log, e) /\ open' = open
      BY <1>3 DEF AppendEvent
    <3> HIDE DEF e
    <3>1. Latest(Append(log, e), open, Len(log) + 1)
            = [Latest(log, open, Len(log)) EXCEPT ![e.k] = e.v]
      BY <2>1, LatestAppend, Zenon
    <3> QED
      BY <2>1, <3>1, <3>2, <3>3, Zenon DEF Visible
  <2>4. UpsertInv'
    BY <1>3, <2>3, VisibleType DEF AppendEvent, UpsertInv, StoreTypeOK, Maps
  <2>5. CacheInv'
    <3>1. ASSUME cache.valid
          PROVE  cache.map = Latest(Append(log, e), cache.snap, cache.n)
      <4>1. cache.n \in 0..Len(log)
        BY <3>1 DEF CacheInv, StoreTypeOK
      <4> QED
        BY <3>1, <4>1, <2>1, AppendKeepsPrefixes DEF CacheInv
    <3> QED
      BY <1>3, <2>1, <3>1 DEF AppendEvent, CacheInv, StoreTypeOK
  <2>6. SnapshotsAgree'
    <3>1. ASSUME NEW k \in Keys PROVE LinesOf(log', synced, k) = LinesOf(log, synced, k)
      BY <1>3, <2>1 DEF LinesOf, AppendEvent, StoreTypeOK
    <3> QED
      BY <1>3, <3>1 DEF SnapshotsAgree, AppendEvent
  <2> QED
    BY <2>2, <2>4, <2>5, <2>6
<1>4. ASSUME SyncEvent
      PROVE  StoreInv'
  <2>1. StoreTypeOK'
    BY <1>4 DEF SyncEvent, StoreTypeOK
  <2>2. UpsertInv' /\ CacheInv'
    BY <1>4 DEF SyncEvent, UpsertInv, CacheInv, Visible, StoreTypeOK
  <2>3. SnapshotsAgree'
    <3>1. ASSUME NEW k \in Keys, LinesOf(log, Len(log), k) = {}
          PROVE  LinesOf(log, synced, k) = {}
      BY <3>1 DEF LinesOf, StoreTypeOK
    <3> QED
      BY <1>4, <3>1 DEF SyncEvent, SnapshotsAgree
  <2> QED
    BY <2>1, <2>2, <2>3
<1>5. ASSUME ReplaceSnapshot
      PROVE  StoreInv'
  <2>1. up.pc = "save" /\ synced = Len(log)
    BY <1>5 DEF ReplaceSnapshot, UpsertInv
  <2>2. StoreTypeOK'
    BY <1>5, <2>1, ReplaceKeepsRows DEF ReplaceSnapshot, StoreTypeOK
  <2>3. Visible' = Visible
    BY <1>5, <2>1, ReplaceKeepsRows DEF ReplaceSnapshot, Visible
  <2>4. UpsertInv'
    BY <1>5, <2>1, <2>3 DEF ReplaceSnapshot, UpsertInv, StoreTypeOK
  <2>5. CacheInv'
    BY <1>5 DEF ReplaceSnapshot, CacheInv
  <2>6. SnapshotsAgree'
    BY <1>5, <2>1, ReplaceKeepsRows DEF ReplaceSnapshot, SnapshotsAgree
  <2> QED
    BY <2>2, <2>4, <2>5, <2>6
<1>6. ASSUME ReturnUpsert
      PROVE  StoreInv'
  <2>1. up.entries = Visible
    BY <1>6 DEF ReturnUpsert, UpsertInv
  <2>2. StoreTypeOK'
    BY <1>6, <2>1, CachedIsSound DEF ReturnUpsert, StoreTypeOK
  <2>3. UpsertInv' /\ SnapshotsAgree'
    BY <1>6 DEF ReturnUpsert, UpsertInv, SnapshotsAgree, StoreTypeOK
  <2>4. CacheInv'
    BY <1>6, <2>1, CachedIsSound DEF ReturnUpsert, CacheInv
  <2> QED
    BY <2>2, <2>3, <2>4
<1>7. ASSUME WriteFails \/ Kill
      PROVE  StoreInv'
  <2>1. StoreTypeOK'
    BY <1>7, NoCacheType DEF WriteFails, Kill, Stop, Idle, StoreTypeOK
  <2>2. UpsertInv' /\ SnapshotsAgree'
    BY <1>7 DEF WriteFails, Kill, Stop, UpsertInv, SnapshotsAgree, StoreTypeOK
  <2>3. CacheInv'
    BY <1>7 DEF WriteFails, Kill, CacheInv, NoCache
  <2> QED
    BY <2>1, <2>2, <2>3
<1>8. ASSUME PowerLoss
      PROVE  StoreInv'
  <2>1. PICK n \in synced..Len(log) : log' = SubSeq(log, 1, n) /\ synced' = n
                                      /\ torn' \in BOOLEAN
    BY <1>8 DEF PowerLoss
  <2>2. log' \in Seq(Event) /\ Len(log') = n
    BY <2>1, PowerLossKeepsPrefix
  <2>3. StoreTypeOK'
    <3>1. synced' \in 0..Len(log')
      BY <2>1, <2>2 DEF StoreTypeOK
    <3>2. open' \in Snapshots /\ openDisk' \in Snapshots
      BY <1>8 DEF PowerLoss, StoreTypeOK
    <3>3. up' \in [pc : {"idle", "append", "sync", "save", "publish"},
                  k : Keys, v : Rows, entries : Maps, outcome : {"none", "ok", "raised"}]
      BY <1>8 DEF PowerLoss, Stop, Idle, StoreTypeOK
    <3>4. cache' \in [n : Nat, snap : Snapshots, map : Maps, valid : BOOLEAN]
      BY <1>8, NoCacheType DEF PowerLoss
    <3> QED
      BY <2>1, <2>2, <3>1, <3>2, <3>3, <3>4 DEF StoreTypeOK
  <2>4. UpsertInv' /\ SnapshotsAgree' /\ CacheInv'
    BY <1>8 DEF PowerLoss, Stop, UpsertInv, SnapshotsAgree, CacheInv, NoCache, StoreTypeOK
  <2> QED
    BY <2>3, <2>4
<1>9. ASSUME UNCHANGED storeVars
      PROVE  StoreInv'
  BY <1>9 DEF storeVars, StoreTypeOK, UpsertInv, CacheInv, SnapshotsAgree, Visible
<1> QED
  BY <1>1, <1>2, <1>3, <1>4, <1>5, <1>6, <1>7, <1>8, <1>9 DEF StoreNext

(* The invariant of order_store.py: types, the dictionary an upsert holds, *)
(* the cache, and the agreement of the two possible snapshots.             *)
THEOREM StoreInvariant == StoreSpec => []StoreInv
<1>1. StoreInit => StoreInv
  BY StoreInitInv
<1>2. StoreInv /\ [StoreNext]_storeVars => StoreInv'
  BY StoreNextInv
<1> QED
  BY <1>1, <1>2, PTL DEF StoreSpec

(* The cached dictionary is never stale when _latest_entries returns it.   *)
THEOREM CacheCorrect == StoreSpec => []CacheIsCurrent
<1>1. StoreInv => CacheIsCurrent
  BY DEF StoreInv, CacheInv, CacheIsCurrent, CacheHit, Visible
<1> QED
  BY <1>1, StoreInvariant, PTL

-----------------------------------------------------------------------------
(* Refinement: the initial states and each step, mapped to the ledger. *)

(* An empty store is an empty ledger. *)
LEMMA StoreInitRefines ==
    ASSUME StoreInit
    PROVE  L!LedgerInit
<1>1. StoreInv
  BY StoreInitInv
<1>2. Visible \in L!Maps
  BY <1>1, VisibleType DEF StoreInv, Maps, L!Maps
<1>3. Survivors = {Visible}
  BY DEF StoreInit, Survivors, Visible
<1>4. CallStatus \in [st : {"none"}, k : Keys, v : Rows]
  BY DEF StoreInit, CallStatus, Idle
<1> QED
  BY <1>2, <1>3, <1>4 DEF L!LedgerInit

(* Where everything is durable, one map survives. *)
LEMMA AllDurable ==
    ASSUME StoreTypeOK, synced = Len(log)
    PROVE  Survivors = {Visible}
<1>1. Len(log) \in Nat
  BY DEF StoreTypeOK
<1>2. synced..Len(log) = {Len(log)}
  BY <1>1
<1> QED
  BY <1>2, Zenon DEF Survivors, Visible

(* Every step of OrderStore is a step of Ledger or changes nothing there. *)
LEMMA StoreNextRefines ==
    ASSUME StoreInv, StoreInv', [StoreNext]_storeVars
    PROVE  [L!LedgerNext]_(L!ledgerVars)
<1> USE DEF StoreInv
<1> DEFINE Same == UNCHANGED <<Visible, Survivors>>
<1>0. ASSUME log' = log, synced' = synced, open' = open
      PROVE  Same
  BY <1>0 DEF Visible, Survivors
<1>1. ASSUME NEW k \in Keys, NEW v \in Rows, StartUpsert(k, v)
      PROVE  L!Call(k, v)
  <2>1. Same
    BY <1>0, <1>1 DEF StartUpsert, files
  <2>2. CallStatus.st # "open" /\ CallStatus' = [st |-> "open", k |-> k, v |-> v]
    BY <1>1 DEF StartUpsert, CallStatus, Idle, StoreTypeOK
  <2> QED
    BY <2>1, <2>2 DEF L!Call
<1>2. ASSUME Load
      PROVE  UNCHANGED L!ledgerVars
  <2>1. Same
    BY <1>0, <1>2 DEF Load, files
  <2>2. CallStatus' = CallStatus
    BY <1>2 DEF Load, CallStatus, Idle
  <2> QED
    BY <2>1, <2>2 DEF L!ledgerVars
<1>3. ASSUME AppendEvent
      PROVE  L!Write
  <2> DEFINE e == [k |-> up.k, v |-> up.v]
             n == Len(log)
  <2>1. /\ e \in Event /\ log \in Seq(Event) /\ n \in Nat /\ synced \in 0..n
        /\ log' = Append(log, e) /\ Len(log') = n + 1
        /\ open' = open /\ synced' = synced
    BY <1>3 DEF AppendEvent, StoreTypeOK, Event
  <2>2. Visible' = [Visible EXCEPT ![up.k] = up.v]
    <3>2. e.k = up.k /\ e.v = up.v
      OBVIOUS
    <3> HIDE DEF e
    <3>1. Latest(Append(log, e), open, n + 1) = [Latest(log, open, n) EXCEPT ![e.k] = e.v]
      BY <2>1, LatestAppend, Zenon
    <3> QED
      BY <2>1, <3>1, <3>2, Zenon DEF Visible
  <2>3. Survivors' = Survivors \cup {Visible'}
    <3>1. \A m \in synced..n : Latest(log', open, m) = Latest(log, open, m)
      <4>1. ASSUME NEW m \in synced..n PROVE Latest(Append(log, e), open, m) = Latest(log, open, m)
        <5>1. m \in 0..Len(log)
          BY <2>1
        <5> QED
          BY <5>1, <2>1, AppendKeepsPrefixes, Zenon
      <4> QED
        BY <4>1, <2>1
    <3>2. synced..(n + 1) = (synced..n) \cup {n + 1}
      BY <2>1
    <3>3. Survivors' = {Latest(log', open, m) : m \in synced..(n + 1)}
      BY <2>1 DEF Survivors
    <3>4. Visible' = Latest(log', open, n + 1)
      BY <2>1 DEF Visible
    <3>5. Survivors = {Latest(log, open, m) : m \in synced..n}
      BY DEF Survivors
    <3> HIDE DEF n, e
    <3> QED
      BY <3>1, <3>2, <3>3, <3>4, <3>5
  <2>4. CallStatus.st = "open" /\ CallStatus' = CallStatus
        /\ CallStatus.k = up.k /\ CallStatus.v = up.v
    BY <1>3 DEF AppendEvent, CallStatus, Idle, StoreTypeOK
  <2> QED
    BY <2>2, <2>3, <2>4 DEF L!Write
<1>4. ASSUME SyncEvent
      PROVE  L!Harden
  <2>1. Visible' = Visible
    BY <1>4 DEF SyncEvent, Visible
  <2>2. Survivors' = {Visible'}
    <3>1. StoreTypeOK' /\ synced' = Len(log)'
      BY <1>4 DEF SyncEvent
    <3>2. Len(log)' \in Nat
      BY <3>1 DEF StoreTypeOK
    <3>3. (synced..Len(log))' = {Len(log)'}
      BY <3>1, <3>2
    <3> QED
      BY <3>3, Zenon DEF Survivors, Visible
  <2>3. CallStatus' = CallStatus
    BY <1>4 DEF SyncEvent, CallStatus, Idle, StoreTypeOK
  <2> QED
    BY <2>1, <2>2, <2>3 DEF L!Harden
<1>5. ASSUME ReplaceSnapshot
      PROVE  UNCHANGED L!ledgerVars
  <2>1. up.pc = "save" /\ synced = Len(log) /\ log' = log /\ synced' = synced
        /\ open' = OpenPart(up.entries)
    BY <1>5 DEF ReplaceSnapshot, UpsertInv
  <2>2. Visible' = Visible
    BY <2>1, ReplaceKeepsRows DEF Visible
  <2>3. Survivors = {Visible}
    BY <2>1, AllDurable
  <2>4. Survivors' = {Visible'}
    <3>1. Len(log) \in Nat
      BY DEF StoreTypeOK
    <3>2. (synced..Len(log))' = {Len(log)'}
      BY <2>1, <3>1
    <3> QED
      BY <3>2, Zenon DEF Survivors, Visible
  <2>5. CallStatus' = CallStatus
    BY <1>5 DEF ReplaceSnapshot, CallStatus, Idle, StoreTypeOK
  <2> QED
    BY <2>2, <2>3, <2>4, <2>5 DEF L!ledgerVars
<1>6. ASSUME ReturnUpsert
      PROVE  L!Return
  <2>1. Same
    BY <1>0, <1>6 DEF ReturnUpsert
  <2>2. Survivors = {Visible} /\ Visible[up.k] = up.v
    BY <1>6, AllDurable DEF ReturnUpsert, UpsertInv
  <2>3. CallStatus.st = "open" /\ CallStatus' = [CallStatus EXCEPT !.st = "ok"]
        /\ CallStatus.k = up.k /\ CallStatus.v = up.v
    BY <1>6 DEF ReturnUpsert, CallStatus, Idle, StoreTypeOK
  <2> QED
    BY <2>1, <2>2, <2>3 DEF L!Return
<1>7. ASSUME WriteFails \/ Kill
      PROVE  L!Raise \/ UNCHANGED L!ledgerVars
  <2>1. Same
    BY <1>0, <1>7 DEF WriteFails, Kill
  <2>2. CASE Idle
    <3>1. CallStatus' = CallStatus
      BY <1>7, <2>2 DEF WriteFails, Kill, Stop, CallStatus, Idle, StoreTypeOK
    <3> QED
      BY <2>1, <3>1 DEF L!ledgerVars
  <2>3. CASE ~Idle
    <3>1. up' = [up EXCEPT !.pc = "idle", !.outcome = "raised"]
      BY <1>7, <2>3 DEF WriteFails, Kill, Stop
    <3>2. CallStatus.st = "open" /\ CallStatus' = [CallStatus EXCEPT !.st = "raised"]
      BY <2>3, <3>1 DEF CallStatus, Idle, StoreTypeOK
    <3> QED
      BY <2>1, <3>2 DEF L!Raise
  <2> QED
    BY <2>2, <2>3
<1>8. ASSUME PowerLoss
      PROVE  L!PowerFailure
  <2>1. PICK n \in synced..Len(log) : log' = SubSeq(log, 1, n) /\ synced' = n
    BY <1>8 DEF PowerLoss
  <2>2. open' \in {open, openDisk}
    BY <1>8 DEF PowerLoss
  <2>3. Len(log') = n /\ Latest(log', open', n) = Latest(log, open, n)
    BY <2>1, <2>2, PowerLossKeepsPrefix
  <2>4. Visible' = Latest(log, open, n)
    BY <2>3 DEF Visible
  <2>5. Visible' \in Survivors
    BY <2>4 DEF Survivors
  <2>6. Survivors' = {Visible'}
    <3>1. n \in Nat
      BY DEF StoreTypeOK
    <3>2. (synced..Len(log))' = {Len(log)'}
      BY <2>1, <2>3, <3>1
    <3> QED
      BY <3>2, Zenon DEF Survivors, Visible
  <2>7. CallStatus' = [CallStatus EXCEPT
                         !.st = IF CallStatus.st = "open" THEN "raised" ELSE CallStatus.st]
    BY <1>8 DEF PowerLoss, Stop, CallStatus, Idle, StoreTypeOK
  <2> QED
    BY <2>5, <2>6, <2>7 DEF L!PowerFailure
<1>9. ASSUME UNCHANGED storeVars
      PROVE  UNCHANGED L!ledgerVars
  <2>1. Same
    BY <1>0, <1>9 DEF storeVars
  <2>2. CallStatus' = CallStatus
    BY <1>9 DEF storeVars, CallStatus, Idle
  <2> QED
    BY <2>1, <2>2 DEF L!ledgerVars
<1> QED
  BY <1>1, <1>2, <1>3, <1>4, <1>5, <1>6, <1>7, <1>8, <1>9 DEF StoreNext, L!LedgerNext

(* The event log, the snapshot and the cache together implement the        *)
(* ledger: upsert is atomic, and durable when it returns, whatever dies    *)
(* between its steps.                                                      *)
THEOREM StoreImplementsLedger == StoreSpec => ImplementsLedger
<1>1. StoreInit => L!LedgerInit
  BY StoreInitRefines
<1>2. StoreInv /\ StoreInv' /\ [StoreNext]_storeVars => [L!LedgerNext]_(L!ledgerVars)
  BY StoreNextRefines
<1> QED
  BY <1>1, <1>2, StoreInvariant, PTL DEF StoreSpec, ImplementsLedger, L!LedgerSpec

=============================================================================
