-------------------------- MODULE CheckpointStore --------------------------
(***************************************************************************)
(* The checkpoint savers (zerograph/checkpoint/memory.py and sqlite.py) as *)
(* the invocations of one thread use them: _load_checkpoint,               *)
(* _save_checkpoint and _save_interrupts of pregel/_loop.py, the entry     *)
(* points of func.py, get_state_history and delete_thread.                 *)
(*                                                                         *)
(* Clients are threads of the process, each with a config dictionary of    *)
(* its own.  An invocation loads a checkpoint, saves any number of them    *)
(* and may end with a question.  Saving stamps the checkpoint first (its   *)
(* id and its ts) and stores it then: two calls, between which the other   *)
(* client may save.  The clock moves between two stamps, so that a         *)
(* checkpoint is named by its stamp.                                       *)
(*                                                                         *)
(* The state in a checkpoint is abstracted to its trail, the checkpoints   *)
(* whose updates it contains.                                              *)
(***************************************************************************)
EXTENDS Integers, FiniteSets, SequencesExt

CONSTANTS
  Clients, Nobody,
  MaxPerThread,     \* InMemorySaver.max_per_thread
  Limits,           \* the limits given to list()
  TimeTravel,       \* may a caller put any checkpoint of the history into its config?
  MaxStamps         \* bound: checkpoints made

Stamp == 1..MaxStamps

ASSUME StoreAssumption ==
  /\ Nobody \notin Clients
  /\ MaxPerThread \in Nat \ {0}
  /\ MaxStamps \in Nat
  /\ Limits \subseteq Nat
  /\ TimeTravel \in BOOLEAN

VARIABLES
  saver,            \* "memory" or "sqlite"
  entry,            \* are the clients calls of an entrypoint, or of a graph?
  stored,           \* the checkpoints of the thread
  parent,           \* parent_config of a checkpoint; 0: none
  trail,
  writes,           \* the pending interrupts of a checkpoint, by the one they were meant for
  tx,               \* sqlite: the connection with an open transaction, and its write
  clock,
  at,               \* per client: "idle", "running", "stamped" or "asking"
  config,           \* checkpoint_id in the client's config; 0: not there
  state,            \* the trail of the channels
  stamp, asks,      \* what is being saved, and whether with a question
  put_ever,         \* history: while `plain`, the checkpoints that were stored
  answered_writes,  \* history: the checkpoints whose put_writes returned
  plain             \* history: no two calls overlapped, every call started from a
                    \* config without checkpoint_id, and the thread was not deleted

db    == <<stored, parent, trail, writes, tx>>
local == <<at, config, state, stamp, asks>>
vars  == <<saver, entry, db, clock, local, put_ever, answered_writes, plain>>

-----------------------------------------------------------------------------
(* Reading.                                                                *)

NewestOf(ids) == CHOOSE i \in ids : \A j \in ids : j <= i

OldestOf(ids) == CHOOSE i \in ids : \A j \in ids : i <= j

LatestWithoutDesc == IF stored = {} THEN 0 ELSE OldestOf(stored)

\* ORDER BY created_at DESC LIMIT 1, or the id with the largest ts.
Latest == IF stored = {} THEN 0 ELSE NewestOf(stored)

LoadedAny(id) == Latest

\* get_tuple: the checkpoint that the config names, and no other; the latest if it
\* names none.
Loaded(id) == IF id = 0 THEN Latest ELSE IF id \in stored THEN id ELSE 0

\* get_pending_writes
PendingWrites(id) == IF id = 0 THEN {} ELSE writes[id]

\* The stored checkpoints before `before` (all, if it is 0; none, if it is unknown).
MemoryBefore(before) ==
  IF before = 0 THEN stored
  ELSE IF before \notin stored THEN {} ELSE {i \in stored : i < before}

\* The ids in descending order.  (A definition of its own, not SetToSortSeq: proofs do not
\* reach an operator that is a parameter.)
NewestFirst(ids) ==
  CHOOSE seq \in [1..Cardinality(ids) -> ids] :
    \A j, k \in 1..Cardinality(ids) : j < k => seq[j] > seq[k]

FirstOf(seq, limit) == SubSeq(seq, 1, IF limit < Len(seq) THEN limit ELSE Len(seq))

MemoryList(before, limit) == FirstOf(NewestFirst(MemoryBefore(before)), limit)

SqliteListUpTo(before, limit) ==
  LET rows == {i \in stored : before = 0 \/ (before \in stored /\ i <= before)}
      kept == {i \in rows : Cardinality({j \in rows : j > i}) < limit}
  IN NewestFirst(kept)

\* SELECT ... WHERE created_at < ? ORDER BY created_at DESC LIMIT ?
SqliteList(before, limit) ==
  LET rows == {i \in stored : before = 0 \/ (before \in stored /\ i < before)}
      kept == {i \in rows : Cardinality({j \in rows : j > i}) < limit}
  IN NewestFirst(kept)

List(before, limit) ==
  IF saver = "memory" THEN MemoryList(before, limit) ELSE SqliteList(before, limit)

\* get_state_history: a snapshot of every checkpoint listed, with its interrupts.
StateHistory(limit) ==
  LET ids == List(0, limit)
  IN [k \in DOMAIN ids |-> [values |-> trail[ids[k]], interrupts |-> writes[ids[k]],
                            parent |-> parent[ids[k]]]]

-----------------------------------------------------------------------------
(* Calls.                                                                  *)

Active == {c \in Clients : at[c] # "idle"}

\* The ids a caller may have in its config: none, the one that its last invocation left
\* there, or one from the history.
ConfigIds(c) ==
  IF entry THEN {0} ELSE {0, config[c]} \cup (IF TimeTravel THEN stored ELSE {})

\* The beginning of _run, and _get_previous of an entrypoint: what the config leads to is
\* loaded, and nothing says when that is no checkpoint.
Call(c) ==
  /\ at[c] = "idle"
  /\ \E id \in ConfigIds(c) :
       /\ config' = [config EXCEPT ![c] = id]
       /\ state' = [state EXCEPT ![c] = IF Loaded(id) = 0 THEN {} ELSE trail[Loaded(id)]]
       /\ plain' = (plain /\ id = 0 /\ Active = {})
  /\ put_ever' = IF plain' THEN put_ever ELSE {}
  /\ at' = [at EXCEPT ![c] = "running"]
  /\ UNCHANGED <<saver, entry, db, clock, stamp, asks, answered_writes>>

\* _save_checkpoint (or _save_previous) takes an id and the time, with or without a
\* question to be saved after it.
TakeStamp(c) ==
  /\ at[c] = "running"
  /\ clock < MaxStamps
  /\ clock' = clock + 1
  /\ stamp' = [stamp EXCEPT ![c] = clock + 1]
  /\ \E q \in (IF entry THEN {FALSE} ELSE BOOLEAN) : asks' = [asks EXCEPT ![c] = q]
  /\ at' = [at EXCEPT ![c] = "stamped"]
  /\ UNCHANGED <<saver, entry, db, config, state, put_ever, answered_writes, plain>>

\* An entrypoint saves its result last of all.
AfterPut(c) == IF entry THEN "idle" ELSE IF asks[c] THEN "asking" ELSE "running"

\* put returned: the checkpoint is in the config of the graph's invocation.
Stored(c, gone) ==
  /\ parent' = [i \in Stamp |-> IF i \in gone THEN 0
                                ELSE IF i = stamp[c] THEN config[c] ELSE parent[i]]
  /\ trail' = [i \in Stamp |-> IF i \in gone THEN {}
                               ELSE IF i = stamp[c] THEN state[c] \cup {i} ELSE trail[i]]
  /\ state' = [state EXCEPT ![c] = IF entry THEN {} ELSE @ \cup {stamp[c]}]
  /\ config' = [config EXCEPT ![c] = IF entry THEN 0 ELSE stamp[c]]
  /\ at' = [at EXCEPT ![c] = AfterPut(c)]
  /\ put_ever' = IF plain THEN put_ever \cup {stamp[c]} ELSE {}
  /\ stamp' = [stamp EXCEPT ![c] = 0]
  /\ asks' = [asks EXCEPT ![c] = FALSE]
  /\ UNCHANGED <<saver, entry, clock, plain>>

\* The invocation is over; what it held is gone, except the caller's config.
Leave(c) ==
  /\ at' = [at EXCEPT ![c] = "idle"]
  /\ state' = [state EXCEPT ![c] = {}]
  /\ stamp' = [stamp EXCEPT ![c] = 0]
  /\ asks' = [asks EXCEPT ![c] = FALSE]
  /\ UNCHANGED <<saver, entry, clock, config, put_ever, plain>>

-----------------------------------------------------------------------------
(* InMemorySaver.                                                          *)

EvictedOneLate(ids) == IF Cardinality(ids) > MaxPerThread + 1 THEN {OldestOf(ids)} ELSE {}

EvictedNewest(ids) == IF Cardinality(ids) > MaxPerThread THEN {NewestOf(ids)} ELSE {}

Evicted(ids) == IF Cardinality(ids) > MaxPerThread THEN {OldestOf(ids)} ELSE {}

WritesWithout(gone) == [i \in Stamp |-> IF i \in gone THEN {} ELSE writes[i]]

MemoryPut(c) ==
  /\ saver = "memory"
  /\ at[c] = "stamped"
  /\ LET with == stored \cup {stamp[c]}
     IN /\ stored' = with \ Evicted(with)
        /\ writes' = WritesWithout(Evicted(with))
        /\ answered_writes' = answered_writes \ Evicted(with)
        /\ Stored(c, Evicted(with))
  /\ UNCHANGED tx

AskedAtLatest(c) == Latest

\* The checkpoint in the config, for which the question is written.  Two writes under
\* one key leave the last of them, so that a question is one value.
AskedAt(c) == config[c]

MemoryPutWrites(c) ==
  /\ saver = "memory"
  /\ at[c] = "asking"
  /\ writes' = [writes EXCEPT ![AskedAt(c)] = {config[c]}]
  /\ answered_writes' = answered_writes \cup ({config[c]} \cap stored)
  /\ Leave(c)
  /\ UNCHANGED <<stored, parent, trail, tx>>

Emptied ==
  /\ stored' = {}
  /\ writes' = [i \in Stamp |-> {}]
  /\ parent' = [i \in Stamp |-> 0]
  /\ trail' = [i \in Stamp |-> {}]
  /\ answered_writes' = {} /\ put_ever' = {}
  /\ plain' = FALSE

MemoryDeleteThread ==
  /\ saver = "memory"
  /\ Emptied
  /\ UNCHANGED <<saver, entry, tx, clock, local>>

-----------------------------------------------------------------------------
(* SqliteSaver: a connection, with its transaction, per thread.            *)

NoTx == [by |-> Nobody, cp |-> 0]

\* Another connection holds the write lock: after busy_timeout, "database is locked".
Locked(c) == tx.by \notin {Nobody, c}

\* conn.commit() makes what is left of an earlier batch durable with the rest.
Committed == IF tx.cp = 0 THEN writes ELSE [writes EXCEPT ![tx.cp] = {tx.cp}]

SqlitePut(c) ==
  /\ saver = "sqlite"
  /\ at[c] = "stamped"
  /\ ~Locked(c)
  /\ stored' = stored \cup {stamp[c]}
  /\ writes' = Committed
  /\ tx' = NoTx
  /\ Stored(c, {})
  /\ UNCHANGED answered_writes

SqlitePutWrites(c) ==
  /\ saver = "sqlite"
  /\ at[c] = "asking"
  /\ ~Locked(c)
  /\ writes' = [Committed EXCEPT ![AskedAt(c)] = {config[c]}]
  /\ tx' = NoTx
  /\ answered_writes' = answered_writes \cup ({config[c]} \cap stored)
  /\ Leave(c)
  /\ UNCHANGED <<stored, parent, trail>>

\* A value of the batch is not JSON: the exception leaves put_writes between execute and
\* commit, and the transaction with the values before it stays open.
SqlitePutWritesFails(c) ==
  /\ saver = "sqlite"
  /\ at[c] = "asking"
  /\ ~Locked(c)
  /\ tx' = [by |-> c, cp |-> config[c]]
  /\ writes' = Committed
  /\ Leave(c)
  /\ UNCHANGED <<stored, parent, trail, answered_writes>>

SqliteLocked(c) ==
  /\ saver = "sqlite"
  /\ at[c] \in {"stamped", "asking"}
  /\ Locked(c)
  /\ Leave(c)
  /\ UNCHANGED <<db, answered_writes>>

SqliteDeleteThread(c) ==
  /\ saver = "sqlite"
  /\ at[c] = "idle"
  /\ ~Locked(c)
  /\ Emptied
  /\ tx' = NoTx
  /\ UNCHANGED <<saver, entry, clock, local>>

-----------------------------------------------------------------------------
Return(c) ==
  /\ at[c] = "running"
  /\ ~entry
  /\ Leave(c)
  /\ UNCHANGED <<db, answered_writes>>

\* An exception of the graph, anywhere: also between put and put_writes.
Crash(c) ==
  /\ at[c] # "idle"
  /\ Leave(c)
  /\ UNCHANGED <<db, answered_writes>>

Init ==
  /\ saver \in {"memory", "sqlite"}
  /\ entry \in BOOLEAN
  /\ stored = {} /\ clock = 0
  /\ parent = [i \in Stamp |-> 0]
  /\ trail = [i \in Stamp |-> {}]
  /\ writes = [i \in Stamp |-> {}]
  /\ tx = NoTx
  /\ at = [c \in Clients |-> "idle"]
  /\ config = [c \in Clients |-> 0]
  /\ state = [c \in Clients |-> {}]
  /\ stamp = [c \in Clients |-> 0]
  /\ asks = [c \in Clients |-> FALSE]
  /\ put_ever = {} /\ answered_writes = {}
  /\ plain = TRUE

Next ==
  \/ \E c \in Clients :
       \/ Call(c) \/ TakeStamp(c) \/ Return(c) \/ Crash(c)
       \/ MemoryPut(c) \/ MemoryPutWrites(c)
       \/ SqlitePut(c) \/ SqlitePutWrites(c) \/ SqlitePutWritesFails(c) \/ SqliteLocked(c)
       \/ SqliteDeleteThread(c)
  \/ MemoryDeleteThread

Spec == Init /\ [][Next]_vars

-----------------------------------------------------------------------------
(* Properties.                                                             *)

\* The type invariant of the store and of the invocations; the memory saver holds no
\* more than max_per_thread checkpoints.
StoreTypeOK ==
  /\ saver \in {"memory", "sqlite"} /\ entry \in BOOLEAN /\ plain \in BOOLEAN
  /\ stored \subseteq Stamp /\ put_ever \subseteq Stamp /\ answered_writes \subseteq Stamp
  /\ saver = "memory" => Cardinality(stored) <= MaxPerThread
  /\ parent \in [Stamp -> 0..MaxStamps]
  /\ trail \in [Stamp -> SUBSET Stamp] /\ writes \in [Stamp -> SUBSET Stamp]
  /\ tx.by \in Clients \cup {Nobody} /\ tx.cp \in 0..MaxStamps
  /\ clock \in 0..MaxStamps
  /\ at \in [Clients -> {"idle", "running", "stamped", "asking"}]
  /\ config \in [Clients -> 0..MaxStamps] /\ stamp \in [Clients -> 0..MaxStamps]
  /\ state \in [Clients -> SUBSET Stamp] /\ asks \in [Clients -> BOOLEAN]

\* The latest checkpoint of a thread is only ever replaced by a newer one, though
\* checkpoints may be stored later than they were stamped and though the memory saver
\* evicts one at every put over its limit.
ThreadHead == INSTANCE NewestCheckpoint WITH head <- Latest
HeadMovesForward == ThreadHead!Spec

\* Paging through the history with `before` and `limit` shows every checkpoint once:
\* the page that follows a checkpoint is the next piece of the whole list, and a
\* checkpoint that is no longer stored is followed by nothing.
PagesCoverHistory ==
  LET all == List(0, MaxStamps)
  IN \A limit \in Limits :
       /\ \A k \in 1..Len(all) :
            List(all[k], limit) =
              SubSeq(all, k + 1, IF k + limit < Len(all) THEN k + limit ELSE Len(all))
       /\ \A i \in Stamp \ stored : List(i, limit) = <<>>

\* The parent that the history shows for a checkpoint is one whose updates it contains,
\* also after a caller went back to an old checkpoint, and with two calls at a time.
ParentsAreHonest ==
  LET history == StateHistory(MaxStamps)
  IN \A k \in DOMAIN history :
       history[k].parent \in stored => trail[history[k].parent] \subseteq history[k].values

\* A stored checkpoint has the question that was saved for it, and never that of another
\* call: eviction, other calls and a batch of writes that fails half-way do not touch it.
QuestionsKept ==
  \A i \in stored :
    /\ PendingWrites(i) \subseteq {i}
    /\ i \in answered_writes => PendingWrites(i) = {i}

\* Calls one after the other, each with a config that names the thread only, build on
\* each other: the latest state contains every update ever stored, also when the saver
\* has evicted most of the checkpoints.
FreshCallsLoseNothing ==
  plain /\ put_ever # {} => Latest # 0 /\ trail[Latest] = put_ever

=============================================================================
