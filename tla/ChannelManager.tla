---------------------------- MODULE ChannelManager ----------------------------
(***************************************************************************)
(* The multi-channel manager and its durable store:                        *)
(*   src/src/channel/runtime/manager.py   ChannelManager                   *)
(*   src/src/channel/store/recover.py     persist_channel, recover_channel *)
(*   src/src/channel/store/store.py       SystemStore                      *)
(*                                                                         *)
(* Client threads call add, apply_transfer and cooperative_close           *)
(* concurrently.  A thread's call is a sequence of atomic steps, cut where *)
(* another thread may run in between: the unlocked test of closed_channels,*)
(* the wait for the channel's lock, the update of the Channel object, and  *)
(* the separate reads and the two SQLite commits of persist_channel.  The  *)
(* process may crash between any two steps; the store survives.            *)
(***************************************************************************)
EXTENDS Accounting

CONSTANTS Threads, Channels,
          NoThread,          \* the owner of a free lock
          EarlyUse,          \* may a client use a channel while add() runs?
          MaxVersion,        \* bound: transfers per channel
          MaxCrashes,        \* bound: process crashes
          MaxStoreFailures   \* bound: SQLite commits that fail

ASSUME ManagerAssumption == /\ NoThread \notin Threads
                            /\ Channels # {}
                            /\ EarlyUse \in BOOLEAN
                            /\ MaxVersion \in Nat
                            /\ MaxCrashes \in Nat
                            /\ MaxStoreFailures \in Nat

VARIABLES
    \* --- memory of the process
    registered,   \* ids in ChannelManager.channels (and _locks)
    bal, ver,     \* Channel.state of each registered channel
    confirmed,    \* Channel.funding_confirmed
    closed,       \* ChannelManager.closed_channels
    lock,         \* owner of each channel's RLock
    \* --- control state of the threads
    pc, job, buf,
    \* --- the SQLite file
    meta,         \* channel_meta row: absent, or its funding_confirmed
    rows,         \* channel_states rows: key, and the JSON's balances, version
    \* --- the environment's budget
    crashes, failures,
    \* --- history, for the properties only
    hist,         \* hist[c][v]: the balances last applied as version v
    acked,        \* highest version returned to a caller
    sealedAt      \* version settled by the co-signed close, or -1

memory   == <<registered, bal, ver, confirmed, closed, lock>>
control  == <<pc, job, buf>>
store    == <<meta, rows>>
budget   == <<crashes, failures>>
history  == <<hist, acked, sealedAt>>
vars     == <<memory, control, store, budget, history>>

Versions == 0 .. MaxVersion
Ops      == {"add", "transfer", "close"}
Labels   == {"idle", "wait", "crit", "persist", "meta", "json", "jsonver",
             "row", "return"}
Rows     == [key : Versions, bal : Allocations, ver : Versions]

\* The locals of persist_channel before it has read anything.
EmptyBuf == [conf |-> FALSE, bal |-> InitialBalances, ver |-> 0]

TypeOK ==
    /\ registered \subseteq Channels
    /\ bal \in [Channels -> Allocations]
    /\ ver \in [Channels -> Versions]
    /\ confirmed \in [Channels -> BOOLEAN]
    /\ closed \subseteq Channels
    /\ lock \in [Channels -> Threads \cup {NoThread}]
    /\ pc \in [Threads -> Labels]
    /\ job \in [Threads -> [op : Ops, ch : Channels]]
    /\ buf \in [Threads -> [conf : BOOLEAN, bal : Allocations, ver : Versions]]
    /\ meta \in [Channels -> {"absent", "unconfirmed", "confirmed"}]
    /\ rows \in [Channels -> SUBSET Rows]
    /\ crashes \in 0 .. MaxCrashes
    /\ failures \in 0 .. MaxStoreFailures
    /\ hist \in [Channels -> [Versions -> Allocations]]
    /\ acked \in [Channels -> Versions]
    /\ sealedAt \in [Channels -> Versions \cup {-1}]

Init ==
    /\ registered = {} /\ closed = {}
    /\ bal = [c \in Channels |-> InitialBalances]
    /\ ver = [c \in Channels |-> 0]
    /\ confirmed = [c \in Channels |-> FALSE]
    /\ lock = [c \in Channels |-> NoThread]
    /\ pc = [t \in Threads |-> "idle"]
    /\ job = [t \in Threads |-> [op |-> "add", ch |-> CHOOSE c \in Channels : TRUE]]
    /\ buf = [t \in Threads |-> EmptyBuf]
    /\ meta = [c \in Channels |-> "absent"]
    /\ rows = [c \in Channels |-> {}]
    /\ crashes = 0 /\ failures = 0
    /\ hist = [c \in Channels |-> [v \in Versions |-> InitialBalances]]
    /\ acked = [c \in Channels |-> 0]
    /\ sealedAt = [c \in Channels |-> -1]

-----------------------------------------------------------------------------
(***************************************************************************)
(* Helpers.                                                                *)
(***************************************************************************)

Goto(t, label) == pc' = [pc EXCEPT ![t] = label]

\* A client may use a channel once the add() of it has finished; as soon as it
\* is registered when another thread knows its funding_txid() (EarlyUse).
Adding(t, c) == pc[t] # "idle" /\ job[t] = [op |-> "add", ch |-> c]
Usable(c) == c \in registered /\ (EarlyUse \/ \A t \in Threads : ~Adding(t, c))

\* `finally: lock.release()`; add() holds no channel lock.
ReleasedOnSuccess(t) ==
    [c \in Channels |-> IF lock[c] = t /\ pc[t] = "return" THEN NoThread
                                                          ELSE lock[c]]
Released(t) ==
    [c \in Channels |-> IF lock[c] = t THEN NoThread ELSE lock[c]]

\* A call returns or raises.
EndCall(t) ==
    /\ lock' = Released(t)
    /\ buf' = [buf EXCEPT ![t] = EmptyBuf]
    /\ Goto(t, "idle")

\* get_latest_channel_state: ORDER BY version DESC LIMIT 1.
OldestRow(c) == CHOOSE r \in rows[c] : \A q \in rows[c] : q.key >= r.key
LatestRow(c) == CHOOSE r \in rows[c] : \A q \in rows[c] : q.key <= r.key

\* The Channel.state that recover_channel rebuilds from the store.
RecoveredBal(c) == IF rows[c] = {} THEN InitialBalances ELSE LatestRow(c).bal
RecoveredVer(c) == IF rows[c] = {} THEN 0 ELSE LatestRow(c).ver

\* INSERT OR REPLACE on the primary key (channel_id, version).
InsertOrReplace(table, row) == {r \in table : r.key # row.key} \cup {row}

-----------------------------------------------------------------------------
(***************************************************************************)
(* ChannelManager.add: the registry step.  A fresh channel holds its       *)
(* initial state; after a restart the caller adds what recover_channel     *)
(* returned.  The persist_channel that follows runs outside every lock.    *)
(* An id already registered raises ManagerError and changes nothing.       *)
(***************************************************************************)
Register(t, c, b, v, conf) ==
    /\ pc[t] = "idle"
    /\ c \notin registered
    /\ registered' = registered \cup {c}
    /\ bal' = [bal EXCEPT ![c] = b]
    /\ ver' = [ver EXCEPT ![c] = v]
    /\ confirmed' = [confirmed EXCEPT ![c] = conf]
    /\ job' = [job EXCEPT ![t] = [op |-> "add", ch |-> c]]
    /\ Goto(t, "persist")
    /\ UNCHANGED <<closed, lock, buf, store, budget, acked, sealedAt>>

AddFresh(t, c) ==
    /\ meta[c] = "absent" /\ rows[c] = {}
    /\ \E conf \in BOOLEAN : Register(t, c, InitialBalances, 0, conf)
    /\ hist' = [hist EXCEPT ![c][0] = InitialBalances]

AddRecovered(t, c) ==
    /\ meta[c] # "absent"
    /\ Conserved(RecoveredBal(c))
    /\ Register(t, c, RecoveredBal(c), RecoveredVer(c), meta[c] = "confirmed")
    /\ UNCHANGED hist

\* Channel.mark_confirmed, called by whoever saw the funding tx confirm.
MarkConfirmed(c) ==
    /\ c \in registered /\ ~confirmed[c]
    /\ confirmed' = [confirmed EXCEPT ![c] = TRUE]
    /\ UNCHANGED <<registered, bal, ver, closed, lock, control, store,
                   budget, history>>

\* apply_transfer: the test of closed_channels, made before the lock is taken.
NoClosedCheck(c) == TRUE
PassesClosedCheck(c) == c \notin closed

BeginTransfer(t, c) ==
    /\ pc[t] = "idle" /\ Usable(c)
    /\ PassesClosedCheck(c)
    /\ job' = [job EXCEPT ![t] = [op |-> "transfer", ch |-> c]]
    /\ Goto(t, "wait")
    /\ UNCHANGED <<memory, buf, store, budget, history>>

BeginClose(t, c) ==
    /\ pc[t] = "idle" /\ Usable(c)
    /\ job' = [job EXCEPT ![t] = [op |-> "close", ch |-> c]]
    /\ Goto(t, "wait")
    /\ UNCHANGED <<memory, buf, store, budget, history>>

\* locked(): lock.acquire() blocks until the channel's lock is free.
NoLocking(c) == TRUE
LockFree(c) == lock[c] = NoThread

Acquire(t) ==
    LET c == job[t].ch IN
    /\ pc[t] = "wait"
    /\ LockFree(c)
    /\ lock' = [lock EXCEPT ![c] = t]
    /\ Goto(t, "crit")
    /\ UNCHANGED <<registered, bal, ver, confirmed, closed, job, buf,
                   store, budget, history>>

\* Channel.apply_transfer under the lock: the in-memory state moves first.
ApplyTransfer(t) ==
    LET c == job[t].ch IN
    /\ pc[t] = "crit" /\ job[t].op = "transfer"
    /\ ver[c] < MaxVersion
    /\ \E s, r \in Parties, d \in 0 .. MicroUnits :
         /\ TransferOK(bal[c], s, r, d)
         /\ bal' = [bal EXCEPT ![c] = Transfer(@, s, r, d)]
         /\ hist' = [hist EXCEPT ![c][ver[c] + 1] = Transfer(bal[c], s, r, d)]
    /\ ver' = [ver EXCEPT ![c] = @ + 1]
    /\ Goto(t, "persist")
    /\ UNCHANGED <<registered, confirmed, closed, lock, job, buf, store,
                   budget, acked, sealedAt>>

\* The accounting boundary raises; the lock is released on the way out.
RejectTransfer(t) ==
    LET c == job[t].ch IN
    /\ pc[t] = "crit" /\ job[t].op = "transfer"
    /\ \E s, r \in Parties, d \in 0 .. MicroUnits : ~TransferOK(bal[c], s, r, d)
    /\ EndCall(t)
    /\ UNCHANGED <<registered, bal, ver, confirmed, closed, job,
                   store, budget, history>>

\* cooperative_close under the lock: co-sign the current state, then seal.
SettlesPrevious(c) == IF ver[c] = 0 THEN 0 ELSE ver[c] - 1
SettledVersion(c) == ver[c]

Close(t) ==
    LET c == job[t].ch IN
    /\ pc[t] = "crit" /\ job[t].op = "close"
    /\ c \notin closed
    /\ confirmed[c]
    /\ sealedAt' = [sealedAt EXCEPT ![c] = SettledVersion(c)]
    /\ closed' = closed \cup {c}
    /\ Goto(t, "persist")
    /\ UNCHANGED <<registered, bal, ver, confirmed, lock, job, buf,
                   store, budget, hist, acked>>

\* StateError (already closed) or UnconfirmedFundingError.
RejectClose(t) ==
    LET c == job[t].ch IN
    /\ pc[t] = "crit" /\ job[t].op = "close"
    /\ c \in closed \/ ~confirmed[c]
    /\ EndCall(t)
    /\ UNCHANGED <<registered, bal, ver, confirmed, closed, job,
                   store, budget, history>>

-----------------------------------------------------------------------------
(***************************************************************************)
(* persist_channel.  ch.funding_confirmed is read into the arguments of    *)
(* put_channel_meta, which commits; then ch.state is read once for the     *)
(* balances and once for the version of the JSON, and a third time for the *)
(* key of put_channel_state, which commits.  The key is read and the row   *)
(* committed in one step: no step of another thread distinguishes the two. *)
(***************************************************************************)
ReadConfirmed(t) ==
    /\ pc[t] = "persist"
    /\ buf' = [buf EXCEPT ![t].conf = confirmed[job[t].ch]]
    /\ Goto(t, "meta")
    /\ UNCHANGED <<memory, job, store, budget, history>>

PutChannelMeta(t) ==
    /\ pc[t] = "meta"
    /\ meta' = [meta EXCEPT ![job[t].ch] =
                   IF buf[t].conf THEN "confirmed" ELSE "unconfirmed"]
    /\ Goto(t, "json")
    /\ UNCHANGED <<memory, job, buf, rows, budget, history>>

ReadBalances(t) ==
    /\ pc[t] = "json"
    /\ buf' = [buf EXCEPT ![t].bal = bal[job[t].ch]]
    /\ Goto(t, "jsonver")
    /\ UNCHANGED <<memory, job, store, budget, history>>

ReadVersion(t) ==
    /\ pc[t] = "jsonver"
    /\ buf' = [buf EXCEPT ![t].ver = ver[job[t].ch]]
    /\ Goto(t, "row")
    /\ UNCHANGED <<memory, job, store, budget, history>>

StateRow(t) == [key |-> ver[job[t].ch], bal |-> buf[t].bal, ver |-> buf[t].ver]

PutChannelState(t) ==
    /\ pc[t] = "row"
    /\ rows' = [rows EXCEPT ![job[t].ch] = InsertOrReplace(@, StateRow(t))]
    /\ Goto(t, "return")
    /\ UNCHANGED <<memory, job, buf, meta, budget, history>>

\* The call returns: the version (transfer), the close tx, or the id (add).
Return(t) ==
    LET c == job[t].ch IN
    /\ pc[t] = "return"
    /\ EndCall(t)
    /\ acked' = IF job[t].op = "transfer" THEN [acked EXCEPT ![c] = ver[c]]
                                          ELSE acked
    /\ UNCHANGED <<registered, bal, ver, confirmed, closed, job, store,
                   budget, hist, sealedAt>>

\* A commit raises: transaction() rolls back and re-raises, the caller gets
\* the exception and the lock is released.  Memory keeps what it had.
StoreFails(t) ==
    /\ pc[t] \in {"meta", "row"}
    /\ failures < MaxStoreFailures
    /\ failures' = failures + 1
    /\ EndCall(t)
    /\ UNCHANGED <<registered, bal, ver, confirmed, closed, job,
                   store, crashes, history>>

\* The process dies: every thread, lock and in-memory object is gone.
Crash ==
    /\ crashes < MaxCrashes
    /\ crashes' = crashes + 1
    /\ registered' = {} /\ closed' = {}
    /\ lock' = [c \in Channels |-> NoThread]
    /\ pc' = [t \in Threads |-> "idle"]
    /\ buf' = [t \in Threads |-> EmptyBuf]
    /\ UNCHANGED <<bal, ver, confirmed, job, store, failures, history>>

-----------------------------------------------------------------------------
\* The steps of a call in progress.
Step(t) ==
    \/ Acquire(t)
    \/ ApplyTransfer(t) \/ RejectTransfer(t)
    \/ Close(t) \/ RejectClose(t)
    \/ ReadConfirmed(t) \/ PutChannelMeta(t)
    \/ ReadBalances(t) \/ ReadVersion(t) \/ PutChannelState(t)
    \/ Return(t)

\* A new call by an idle thread.
Call(t, c) ==
    \/ AddFresh(t, c) \/ AddRecovered(t, c)
    \/ BeginTransfer(t, c) \/ BeginClose(t, c)

Next ==
    \/ \E t \in Threads, c \in Channels : Call(t, c)
    \/ \E t \in Threads : Step(t) \/ StoreFails(t)
    \/ \E c \in Channels : MarkConfirmed(c)
    \/ Crash

Spec == Init /\ [][Next]_vars

\* The scheduler eventually runs a thread that can take a step of its call.
FairSpec == Spec /\ \A t \in Threads : WF_vars(Step(t))

-----------------------------------------------------------------------------
(***************************************************************************)
(* Properties.                                                             *)
(***************************************************************************)

\* No row is torn or mislabelled: the JSON in the row with key v is exactly
\* the state that was applied as version v, whatever threads, crashes and
\* failed commits came in between.  (persist_channel reads ch.state three times.)
RowsFaithful ==
    \A c \in Channels : \A r \in rows[c] :
        r.ver = r.key /\ r.bal = hist[c][r.key]

\* A version apply_transfer has returned to a caller is in the store, with the
\* balances it was returned for, and a restart recovers it or a later one.
AckedDurable ==
    \A c \in Channels : acked[c] > 0 =>
        /\ meta[c] # "absent"
        /\ \E r \in rows[c] : r.key = acked[c] /\ r.bal = hist[c][acked[c]]
        /\ RecoveredVer(c) >= acked[c]

\* Whenever nobody holds a channel's lock and no add of it is running, the
\* Channel object and the store agree: a transfer is applied in both or in
\* neither (apply_transfer, "atomically apply").  True while no commit fails.
Quiescent(c) == /\ c \in registered /\ LockFree(c)
                /\ \A t \in Threads : ~Adding(t, c)
MemoryIsDurable ==
    failures = 0 => \A c \in Channels : Quiescent(c) =>
        bal[c] = RecoveredBal(c) /\ ver[c] = RecoveredVer(c)

\* The version a restart would recover never decreases.
LatestNeverRegresses ==
    [][\A c \in Channels : RecoveredVer(c)' >= RecoveredVer(c)]_vars

\* A close never settles a state older than one acknowledged to a client, or
\* than one that a restart would bring back.
CloseUsesLatest ==
    [][\A c \in Channels : sealedAt'[c] # sealedAt[c] =>
        sealedAt'[c] >= acked[c] /\ sealedAt'[c] >= RecoveredVer(c)]_vars

\* closed_channels stops all but the transfers already past the test: after a
\* close at most one transfer of every other thread still changes the state.
LateTransfersBounded ==
    \A c \in closed : ver[c] - sealedAt[c] <= Cardinality(Threads) - 1

\* The manager implements the committed ledger: seen through what a restart
\* would recover, every step is one accepted transfer, one settlement of
\* exactly the committed state, or nothing; once a commit has failed, possibly
\* several transfers at once or the settlement of a later state.
Committed == INSTANCE CommittedLedger
    WITH cbal     <- [c \in Channels |-> RecoveredBal(c)],
         cver     <- [c \in Channels |-> RecoveredVer(c)],
         settled  <- sealedAt,
         degraded <- failures > 0
ImplementsLedger == Committed!LedgerSpec

\* Whoever holds a channel's lock eventually releases it: no path through
\* apply_transfer or cooperative_close, raising ones included, keeps it.
LockReleased ==
    \A c \in Channels : (lock[c] # NoThread) ~> (lock[c] = NoThread)

(***************************************************************************)
(* What the documentation says and the code does not do.                   *)
(***************************************************************************)

\* manager.py, module docstring: "any in-flight transfer either commits before
\* the close or is rejected": the settled version stays the channel's last.
NoLateTransfer == \A c \in closed : ver[c] = sealedAt[c]
=============================================================================
