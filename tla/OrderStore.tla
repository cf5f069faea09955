----------------------------- MODULE OrderStore -----------------------------
(***************************************************************************)
(* poma/order_store.py with persistence.atomic_write_text: the append-only *)
(* order_events.jsonl, the open_orders.jsonl snapshot, the in-process      *)
(* cache, and the steps of upsert between which the process may be killed, *)
(* the disk may be full and the power may fail.                            *)
(*                                                                         *)
(* A row is a value of Rows; only "is it terminal" is read.  A line that   *)
(* was only partly written makes every later read raise (json.loads): the  *)
(* store is then closed until an operator repairs the file.  An fsync that *)
(* itself fails is not modelled.                                           *)
(***************************************************************************)
EXTENDS Naturals, Sequences

CONSTANTS
    Keys,           \* ledger keys
    Rows,           \* rows a caller may record
    TerminalRows,   \* the rows with is_terminal
    Absent,         \* no row
    MaxLog          \* bound: lines of the event log

ASSUME StoreAssumption ==
    /\ Absent \notin Rows
    /\ TerminalRows \subseteq Rows
    /\ MaxLog \in Nat

VARIABLES
    log,            \* the complete lines of order_events.jsonl
    torn,           \* a partial line follows them
    synced,         \* number of lines that fsync has made durable
    open,           \* open_orders.jsonl as it is read now
    openDisk,       \* open_orders.jsonl after a power failure now
    cache,          \* _cache and its signature
    up              \* the upsert in progress, or the last one

files == <<log, torn, synced, open, openDisk>>

storeVars == <<log, torn, synced, open, openDisk, cache, up>>

Maps == [Keys -> Rows \cup {Absent}]

Event == [k : Keys, v : Rows]

(* A snapshot holds rows that are not terminal; Absent stands for no line. *)
Snapshots == [Keys -> (Rows \ TerminalRows) \cup {Absent}]

-----------------------------------------------------------------------------
(* _latest_entries: the snapshot's lines, then the log's lines over them,  *)
(* the last line of a key winning.  Latest is that dictionary when only    *)
(* the first n lines of the log are there.                                 *)

LinesOf(lg, n, k) == {i \in 1..n : lg[i].k = k}

LastLine(lg, n, k) ==
    CHOOSE i \in LinesOf(lg, n, k) : \A j \in LinesOf(lg, n, k) : j <= i

Latest(lg, snap, n) ==
    [k \in Keys |-> IF LinesOf(lg, n, k) = {} THEN snap[k] ELSE lg[LastLine(lg, n, k)].v]

Visible == Latest(log, open, Len(log))

(* _signature: any append changes the size of the log, and a replaced      *)
(* snapshot has a new inode.                                               *)
NoCache == [n |-> 0, snap |-> [k \in Keys |-> Absent],
            map |-> [k \in Keys |-> Absent], valid |-> FALSE]

(* Mutant: the signature leaves out the event log. *)
SnapshotCacheHit == cache.valid /\ cache.snap = open

CacheHit == cache.valid /\ cache.n = Len(log) /\ cache.snap = open

Entries == IF CacheHit THEN cache.map ELSE Visible

Cached(map) == [n |-> Len(log), snap |-> open, map |-> map, valid |-> TRUE]

(* _save_open_orders keeps what is not terminal. *)
OpenPart(map) == [k \in Keys |-> IF map[k] \in TerminalRows THEN Absent ELSE map[k]]

-----------------------------------------------------------------------------
StoreTypeOK ==
    /\ log \in Seq(Event)
    /\ torn \in BOOLEAN
    /\ synced \in 0..Len(log)
    /\ open \in Snapshots /\ openDisk \in Snapshots
    /\ cache \in [n : Nat, snap : Snapshots, map : Maps, valid : BOOLEAN]
    /\ up \in [pc : {"idle", "append", "sync", "save", "publish"},
               k : Keys, v : Rows, entries : Maps, outcome : {"none", "ok", "raised"}]

(* A new installation, or one that has a snapshot from before the log. *)
StoreInit ==
    /\ log = << >> /\ torn = FALSE /\ synced = 0
    /\ open \in Snapshots /\ openDisk = open
    /\ cache = NoCache
    /\ up \in [pc : {"idle"}, k : Keys, v : Rows, entries : {[k \in Keys |-> Absent]},
               outcome : {"none"}]

Idle == up.pc = "idle"

(* load_open_orders, load_latest_entries, get, get_latest_many,            *)
(* get_latest_run_trades: all read through _latest_entries.                *)
Load ==
    /\ Idle /\ ~torn
    /\ cache' = Cached(Entries)
    /\ UNCHANGED <<files, up>>

(* upsert reads the latest entries and puts the new one over them. *)
StartUpsert(k, v) ==
    /\ Idle /\ ~torn
    /\ Len(log) < MaxLog
    /\ cache' = Cached(Entries)
    /\ up' = [up EXCEPT !.pc = "append", !.k = k, !.v = v,
                        !.entries = [Entries EXCEPT ![k] = v]]
    /\ UNCHANGED files

(* Mutant: the line is written and not synced. *)
AppendUnsynced ==
    /\ up.pc = "append"
    /\ log' = Append(log, [k |-> up.k, v |-> up.v])
    /\ up' = [up EXCEPT !.pc = "save"]
    /\ UNCHANGED <<torn, synced, open, openDisk, cache>>

(* _append_event: write and flush, then fsync. *)
AppendEvent ==
    /\ up.pc = "append"
    /\ log' = Append(log, [k |-> up.k, v |-> up.v])
    /\ up' = [up EXCEPT !.pc = "sync"]
    /\ UNCHANGED <<torn, synced, open, openDisk, cache>>

SyncEvent ==
    /\ up.pc = "sync"
    /\ synced' = Len(log)
    /\ up' = [up EXCEPT !.pc = "save"]
    /\ UNCHANGED <<log, torn, open, openDisk, cache>>

(* Mutant: the snapshot holds only the row just written. *)
ReplaceSnapshotByRow ==
    /\ up.pc = "save"
    /\ open' = OpenPart([k \in Keys |-> IF k = up.k THEN up.v ELSE Absent])
    /\ up' = [up EXCEPT !.pc = "publish"]
    /\ UNCHANGED <<log, torn, synced, openDisk, cache>>

(* atomic_write_text: os.replace of a complete temporary file, then fsync  *)
(* of the directory; upsert refreshes its cache and returns.               *)
ReplaceSnapshot ==
    /\ up.pc = "save"
    /\ open' = OpenPart(up.entries)
    /\ up' = [up EXCEPT !.pc = "publish"]
    /\ UNCHANGED <<log, torn, synced, openDisk, cache>>

ReturnUpsert ==
    /\ up.pc = "publish"
    /\ openDisk' = open
    /\ cache' = Cached(up.entries)
    /\ up' = [up EXCEPT !.pc = "idle", !.outcome = "ok"]
    /\ UNCHANGED <<log, torn, synced, open>>

-----------------------------------------------------------------------------
Stop == up' = [up EXCEPT !.pc = "idle", !.outcome = IF Idle THEN @ ELSE "raised"]

(* The disk is full: nothing or part of the line is written, or the        *)
(* snapshot cannot be replaced.  The exception leaves the cache alone.     *)
WriteFails ==
    /\ up.pc \in {"append", "save"}
    /\ torn' \in IF up.pc = "append" THEN BOOLEAN ELSE {torn}
    /\ Stop
    /\ UNCHANGED <<log, synced, open, openDisk, cache>>

(* The process dies; what it wrote stays with the kernel. *)
Kill ==
    /\ Stop
    /\ cache' = NoCache
    /\ torn' \in IF up.pc = "append" THEN BOOLEAN ELSE {torn}
    /\ UNCHANGED <<log, synced, open, openDisk>>

(* The host goes down: of what no fsync covered, any prefix survives. *)
PowerLoss ==
    /\ \E n \in synced..Len(log) :
          /\ log' = SubSeq(log, 1, n)
          /\ synced' = n
          /\ torn' \in IF n < Len(log) \/ torn THEN BOOLEAN ELSE {FALSE}
    /\ open' \in {open, openDisk}
    /\ openDisk' = open'
    /\ Stop
    /\ cache' = NoCache

StoreNext ==
    \/ \E k \in Keys, v \in Rows : StartUpsert(k, v)
    \/ Load \/ AppendEvent \/ SyncEvent \/ ReplaceSnapshot \/ ReturnUpsert
    \/ WriteFails \/ Kill \/ PowerLoss

StoreSpec == StoreInit /\ [][StoreNext]_storeVars

-----------------------------------------------------------------------------
(* The store implements the ledger.  A power failure leaves the maps of    *)
(* the log's prefixes from the durable one on.                             *)
Survivors == {Latest(log, open, n) : n \in synced..Len(log)}

CallStatus == [st |-> IF Idle THEN up.outcome ELSE "open", k |-> up.k, v |-> up.v]

L == INSTANCE Ledger WITH map <- Visible, survivors <- Survivors, call <- CallStatus

(* upsert / _latest_entries: the two files and the cache behave like one   *)
(* map that is written atomically and is durable when upsert returns.      *)
ImplementsLedger == L!LedgerSpec

(* _signature: whenever the cache is used, it equals what the files say,   *)
(* also after an upsert that raised half way.                              *)
CacheIsCurrent == CacheHit => cache.map = Visible

(* _latest_entries (legacy snapshots): whichever snapshot survives a power *)
(* failure, the rows it alone records are the same.                        *)
SnapshotsAgree ==
    \A k \in Keys : LinesOf(log, synced, k) = {} => open[k] = openDisk[k]

(* The strengthening that makes these inductive: what upsert holds in      *)
(* memory is what the files will say, the snapshot is replaced only over a *)
(* durable log, and the cache is the dictionary of the lines it was read   *)
(* from.                                                                   *)
UpsertInv ==
    /\ up.pc = "append" => up.entries = [Visible EXCEPT ![up.k] = up.v]
    /\ up.pc \in {"sync", "save", "publish"} =>
          up.entries = Visible /\ Visible[up.k] = up.v
    /\ up.pc \in {"save", "publish"} => synced = Len(log)

CacheInv ==
    cache.valid => /\ cache.n <= Len(log)
                   /\ cache.map = Latest(log, cache.snap, cache.n)

StoreInv == StoreTypeOK /\ UpsertInv /\ CacheInv /\ SnapshotsAgree

=============================================================================
