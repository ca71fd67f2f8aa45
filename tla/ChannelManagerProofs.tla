-------------------------- MODULE ChannelManagerProofs --------------------------
(***************************************************************************)
(* Proofs about ChannelManager, for any number of threads, channels,       *)
(* parties and versions, any number of crashes and of failing commits.     *)
(*                                                                         *)
(* TypeOK holds whatever the clients do.  The safety invariants need that  *)
(* nobody uses a channel before the add() that registers it has returned   *)
(* (~EarlyUse): without it a row can be torn and they are false.           *)
(***************************************************************************)
EXTENDS ChannelManager, AccountingProofs

-----------------------------------------------------------------------------
(***************************************************************************)
(* Lemmas about the operators.                                             *)
(***************************************************************************)

\* initial_state() is an allocation.
LEMMA InitialIsAllocation == InitialBalances \in Allocations
  BY ConfigAssumption DEF InitialBalances, Allocations, MicroUnits, Parties

\* transfer() returns an allocation when it does not raise.
LEMMA TransferIsAllocation ==
  ASSUME NEW b \in Allocations, NEW s \in Parties, NEW r \in Parties,
         NEW d \in 0 .. MicroUnits, TransferOK(b, s, r, d)
  PROVE  Transfer(b, s, r, d) \in Allocations
  BY ConfigAssumption DEF TransferOK, Transfer, Allocations, Parties, MicroUnits

\* ORDER BY version DESC LIMIT 1 on a non-empty table returns one of its rows,
\* and no row has a higher key.
LEMMA LatestRowExists ==
  ASSUME NEW c \in Channels, rows[c] \subseteq Rows, rows[c] # {}
  PROVE  /\ LatestRow(c) \in rows[c]
         /\ \A q \in rows[c] : q.key <= LatestRow(c).key
<1> DEFINE T == {MaxVersion - r.key : r \in rows[c]}
<1>1. T \subseteq Nat /\ T # {}
  BY ManagerAssumption DEF Rows, Versions
<1>2. PICK x \in T : \A y \in T : x <= y
  BY <1>1, LeastNatural
<1>3. PICK r \in rows[c] : x = MaxVersion - r.key
  OBVIOUS
<1>4. ASSUME NEW q \in rows[c] PROVE q.key <= r.key
  <2>1. MaxVersion - q.key \in T
    OBVIOUS
  <2>2. MaxVersion - r.key <= MaxVersion - q.key
    BY <1>2, <1>3, <2>1
  <2>3. q.key \in Nat /\ r.key \in Nat
    BY ManagerAssumption DEF Rows, Versions
  <2> QED BY <2>2, <2>3, ManagerAssumption
<1> QED BY <1>4 DEF LatestRow

\* What recover_channel rebuilds is a state.
LEMMA RecoveredType ==
  ASSUME TypeOK, NEW c \in Channels
  PROVE  RecoveredBal(c) \in Allocations /\ RecoveredVer(c) \in Versions
<1>1. rows[c] \subseteq Rows
  BY DEF TypeOK
<1>2. CASE rows[c] = {}
  BY <1>2, InitialIsAllocation, ManagerAssumption
     DEF RecoveredBal, RecoveredVer, Versions
<1>3. CASE rows[c] # {}
  BY <1>1, <1>3, LatestRowExists DEF RecoveredBal, RecoveredVer, Rows
<1> QED BY <1>2, <1>3

\* The locals of a finished call.
LEMMA EmptyBufType == EmptyBuf \in [conf : BOOLEAN, bal : Allocations, ver : Versions]
  BY InitialIsAllocation, ManagerAssumption DEF EmptyBuf, Versions

\* A call that ends leaves the lock, the locals and the label typed.
LEMMA EndCallType ==
  ASSUME TypeOK, NEW t \in Threads, EndCall(t)
  PROVE  /\ lock' \in [Channels -> Threads \cup {NoThread}]
         /\ buf' \in [Threads -> [conf : BOOLEAN, bal : Allocations, ver : Versions]]
         /\ pc' \in [Threads -> Labels]
  BY EmptyBufType DEF TypeOK, EndCall, Released, Goto, Labels

-----------------------------------------------------------------------------
(***************************************************************************)
(* Type correctness, one step per action.                                  *)
(***************************************************************************)
LEMMA TypeInit == Init => TypeOK
<1> SUFFICES ASSUME Init PROVE TypeOK
  OBVIOUS
<1>1. (CHOOSE c \in Channels : TRUE) \in Channels
  BY ManagerAssumption
<1> QED BY <1>1, InitialIsAllocation, EmptyBufType, ManagerAssumption
        DEF Init, TypeOK, Versions, Ops, Labels

LEMMA TypeStep == TypeOK /\ [Next]_vars => TypeOK'
<1> SUFFICES ASSUME TypeOK, [Next]_vars PROVE TypeOK'
  OBVIOUS
<1> USE DEF memory, control, store, budget, history, Ops, Labels, Goto
<1>1. ASSUME NEW t \in Threads, NEW c \in Channels, AddFresh(t, c) PROVE TypeOK'
  BY <1>1, InitialIsAllocation, ManagerAssumption
     DEF TypeOK, AddFresh, Register, Versions
<1>2. ASSUME NEW t \in Threads, NEW c \in Channels, AddRecovered(t, c)
      PROVE  TypeOK'
  BY <1>2, RecoveredType DEF TypeOK, AddRecovered, Register
<1>3. ASSUME NEW t \in Threads, NEW c \in Channels, BeginTransfer(t, c)
      PROVE  TypeOK'
  BY <1>3 DEF TypeOK, BeginTransfer
<1>4. ASSUME NEW t \in Threads, NEW c \in Channels, BeginClose(t, c)
      PROVE  TypeOK'
  BY <1>4 DEF TypeOK, BeginClose
<1>5. ASSUME NEW t \in Threads, Acquire(t) PROVE TypeOK'
  BY <1>5 DEF TypeOK, Acquire
<1>6. ASSUME NEW t \in Threads, ApplyTransfer(t) PROVE TypeOK'
  <2> DEFINE c == job[t].ch
  <2>1. c \in Channels /\ bal[c] \in Allocations /\ ver[c] + 1 \in Versions
    BY <1>6, ManagerAssumption DEF TypeOK, ApplyTransfer, Versions
  <2>2. PICK s \in Parties, r \in Parties, d \in 0 .. MicroUnits :
          /\ TransferOK(bal[c], s, r, d)
          /\ bal' = [bal EXCEPT ![c] = Transfer(@, s, r, d)]
          /\ hist' = [hist EXCEPT ![c][ver[c] + 1] = Transfer(bal[c], s, r, d)]
    BY <1>6 DEF ApplyTransfer
  <2>3. Transfer(bal[c], s, r, d) \in Allocations
    BY <2>1, <2>2, TransferIsAllocation
  <2> QED BY <1>6, <2>1, <2>2, <2>3 DEF TypeOK, ApplyTransfer
<1>7. ASSUME NEW t \in Threads, RejectTransfer(t) PROVE TypeOK'
  BY <1>7, EndCallType DEF TypeOK, RejectTransfer
<1>8. ASSUME NEW t \in Threads, Close(t) PROVE TypeOK'
  BY <1>8 DEF TypeOK, Close, SettledVersion
<1>9. ASSUME NEW t \in Threads, RejectClose(t) PROVE TypeOK'
  BY <1>9, EndCallType DEF TypeOK, RejectClose
<1>10. ASSUME NEW t \in Threads, ReadConfirmed(t) PROVE TypeOK'
  BY <1>10 DEF TypeOK, ReadConfirmed
<1>11. ASSUME NEW t \in Threads, PutChannelMeta(t) PROVE TypeOK'
  BY <1>11 DEF TypeOK, PutChannelMeta
<1>12. ASSUME NEW t \in Threads, ReadBalances(t) PROVE TypeOK'
  BY <1>12 DEF TypeOK, ReadBalances
<1>13. ASSUME NEW t \in Threads, ReadVersion(t) PROVE TypeOK'
  BY <1>13 DEF TypeOK, ReadVersion
<1>14. ASSUME NEW t \in Threads, PutChannelState(t) PROVE TypeOK'
  <2>1. StateRow(t) \in Rows
    BY DEF TypeOK, StateRow, Rows
  <2> QED BY <1>14, <2>1 DEF TypeOK, PutChannelState, InsertOrReplace
<1>15. ASSUME NEW t \in Threads, Return(t) PROVE TypeOK'
  BY <1>15, EndCallType DEF TypeOK, Return
<1>16. ASSUME NEW t \in Threads, StoreFails(t) PROVE TypeOK'
  BY <1>16, EndCallType, ManagerAssumption DEF TypeOK, StoreFails
<1>17. ASSUME NEW c \in Channels, MarkConfirmed(c) PROVE TypeOK'
  BY <1>17 DEF TypeOK, MarkConfirmed
<1>18. CASE Crash
  BY <1>18, EmptyBufType, ManagerAssumption DEF TypeOK, Crash
<1>19. CASE UNCHANGED vars
  BY <1>19 DEF TypeOK, vars
<1> QED BY <1>1, <1>2, <1>3, <1>4, <1>5, <1>6, <1>7, <1>8, <1>9, <1>10, <1>11,
           <1>12, <1>13, <1>14, <1>15, <1>16, <1>17, <1>18, <1>19
        DEF Next, Call, Step

\* Type correctness of the manager, its threads and its store: balances stay
\* non-negative, versions, labels and rows in range, whatever the clients do.
THEOREM TypeCorrect == Spec => []TypeOK
  BY TypeInit, TypeStep, PTL DEF Spec

-----------------------------------------------------------------------------
(***************************************************************************)
(* The inductive invariant.  None of the safety invariants is inductive:   *)
(* that a row is not torn depends on who may write the Channel object      *)
(* while persist_channel reads it, and on no stored row being newer than   *)
(* the object.                                                             *)
(***************************************************************************)

\* Thread t is inside `with self.locked(cid)`.
InSection(t) == job[t].op # "add" /\ pc[t] \notin {"idle", "wait"}

\* Thread t is inside persist_channel for c and has not committed the row.
Persisting(t, c) ==
    /\ pc[t] \in {"persist", "meta", "json", "jsonver", "row"}
    /\ job[t].ch = c

HasRow(c, v) == \E r \in rows[c] : r.key = v

\* The lock is held by exactly the thread inside the section.
OwnerInv ==
    \A t \in Threads, c \in Channels : lock[c] = t <=> InSection(t) /\ job[t].ch = c

\* Calls are on registered channels, and add() shares its channel with nobody.
CallInv ==
    /\ \A t \in Threads : pc[t] # "idle" => job[t].ch \in registered
    /\ \A t \in Threads : pc[t] \in {"wait", "crit"} => job[t].op # "add"
    /\ \A t, u \in Threads :
          (t # u /\ pc[t] # "idle" /\ pc[u] # "idle" /\ job[t].ch = job[u].ch)
            => job[t].op # "add"

ControlInv == OwnerInv /\ CallInv

\* What persist_channel has read so far is still the Channel's state.
BufInv ==
    \A t \in Threads :
        /\ pc[t] \in {"jsonver", "row"} => buf[t].bal = bal[job[t].ch]
        /\ pc[t] = "row" => buf[t].ver = ver[job[t].ch]

\* The Channel object holds the last applied state; no stored row is newer.
MemoryInv ==
    \A c \in Channels :
        /\ hist[c][0] = InitialBalances
        /\ c \in registered => /\ hist[c][ver[c]] = bal[c]
                               /\ \A r \in rows[c] : r.key <= ver[c]

DataInv == BufInv /\ MemoryInv /\ RowsFaithful

\* What is acknowledged, or about to be, has its meta row and its state row.
AckInv ==
    /\ \A c \in Channels : acked[c] > 0 => meta[c] # "absent" /\ HasRow(c, acked[c])
    /\ \A t \in Threads : pc[t] \in {"json", "jsonver", "row", "return"}
                            => meta[job[t].ch] # "absent"
    /\ \A t \in Threads : pc[t] = "return" => HasRow(job[t].ch, ver[job[t].ch])

\* While no commit has failed, a channel nobody is persisting is in the store.
DurInv ==
    failures = 0 => \A c \in registered :
        (\A t \in Threads : ~Persisting(t, c)) => HasRow(c, ver[c])

Inv == TypeOK /\ ControlInv /\ DataInv /\ AckInv /\ DurInv

-----------------------------------------------------------------------------
(***************************************************************************)
(* Control: locks, calls and add().                                        *)
(***************************************************************************)

\* A call that ends, by a return or an exception, gives its lock back.
LEMMA EndCallControl ==
  ASSUME TypeOK, ControlInv, NEW t \in Threads, EndCall(t),
         registered' = registered, job' = job
  PROVE  ControlInv'
  BY ManagerAssumption
     DEF TypeOK, ControlInv, OwnerInv, CallInv, InSection, EndCall, Released, Goto

\* A step that only moves t's label, past the lock, keeps lock and calls.
LEMMA MoveControl ==
  ASSUME TypeOK, ControlInv, NEW t \in Threads, NEW l \in Labels,
         pc[t] \notin {"idle", "wait"}, l \notin {"idle", "wait", "crit"}, Goto(t, l),
         registered' = registered, job' = job, lock' = lock
  PROVE  ControlInv'
  BY ManagerAssumption
     DEF TypeOK, ControlInv, OwnerInv, CallInv, InSection, Goto

\* Begin*: no add of the channel is running, since clients wait for it.
LEMMA BeginControl ==
  ASSUME TypeOK, ControlInv, ~EarlyUse, NEW t \in Threads, NEW c \in Channels,
         NEW op \in {"transfer", "close"}, pc[t] = "idle", Usable(c),
         job' = [job EXCEPT ![t] = [op |-> op, ch |-> c]], Goto(t, "wait"),
         registered' = registered, lock' = lock
  PROVE  ControlInv'
<1>1. OwnerInv'
  BY ManagerAssumption DEF TypeOK, ControlInv, OwnerInv, InSection, Goto
<1>2. \A u \in Threads : pc[u] # "idle" /\ job[u].ch = c => job[u].op # "add"
  BY DEF Usable, Adding, TypeOK
<1>3. CallInv'
  BY <1>2 DEF TypeOK, ControlInv, CallInv, Goto, Usable
<1> QED BY <1>1, <1>3 DEF ControlInv

\* add(): the id was not registered, so no call is on it.
LEMMA RegisterControl ==
  ASSUME TypeOK, ControlInv, NEW t \in Threads, NEW c \in Channels,
         NEW b, NEW v, NEW conf, Register(t, c, b, v, conf)
  PROVE  ControlInv'
<1>1. OwnerInv'
  BY ManagerAssumption
     DEF TypeOK, ControlInv, OwnerInv, InSection, Goto, Register
<1>2. \A u \in Threads : pc[u] # "idle" => job[u].ch # c
  BY DEF ControlInv, CallInv, Register
<1>3. CallInv'
  BY <1>2 DEF TypeOK, ControlInv, CallInv, Goto, Register
<1> QED BY <1>1, <1>3 DEF ControlInv

LEMMA ControlStep ==
  ASSUME TypeOK, ControlInv, ~EarlyUse, [Next]_vars
  PROVE  ControlInv'
<1> USE DEF memory, control, store, budget, history, Labels
<1>1. ASSUME NEW t \in Threads, NEW c \in Channels, AddFresh(t, c) \/ AddRecovered(t, c)
      PROVE  ControlInv'
  BY <1>1, RegisterControl DEF AddFresh, AddRecovered
<1>2. ASSUME NEW t \in Threads, NEW c \in Channels, BeginTransfer(t, c)
      PROVE  ControlInv'
  BY <1>2, BeginControl DEF BeginTransfer
<1>3. ASSUME NEW t \in Threads, NEW c \in Channels, BeginClose(t, c)
      PROVE  ControlInv'
  BY <1>3, BeginControl DEF BeginClose
<1>4. ASSUME NEW t \in Threads, Acquire(t)
      PROVE  ControlInv'
  BY <1>4, ManagerAssumption DEF Acquire, LockFree, TypeOK, ControlInv,
     OwnerInv, CallInv, InSection, Goto
<1>5. ASSUME NEW t \in Threads, ApplyTransfer(t) \/ Close(t)
      PROVE  ControlInv'
  BY <1>5, MoveControl DEF ApplyTransfer, Close
<1>6. ASSUME NEW t \in Threads,
             RejectTransfer(t) \/ RejectClose(t) \/ Return(t) \/ StoreFails(t)
      PROVE  ControlInv'
  BY <1>6, EndCallControl DEF RejectTransfer, RejectClose, Return, StoreFails
<1>7. ASSUME NEW t \in Threads, ReadConfirmed(t) \/ PutChannelMeta(t)
      PROVE  ControlInv'
  BY <1>7, MoveControl DEF ReadConfirmed, PutChannelMeta
<1>8. ASSUME NEW t \in Threads, ReadBalances(t) \/ ReadVersion(t) \/ PutChannelState(t)
      PROVE  ControlInv'
  BY <1>8, MoveControl DEF ReadBalances, ReadVersion, PutChannelState
<1>9. ASSUME NEW c \in Channels, MarkConfirmed(c)
      PROVE  ControlInv'
  BY <1>9 DEF MarkConfirmed, ControlInv, OwnerInv, CallInv, InSection
<1>10. CASE Crash
  BY <1>10, ManagerAssumption DEF Crash, ControlInv, OwnerInv, CallInv, InSection
<1>11. CASE UNCHANGED vars
  BY <1>11 DEF vars, ControlInv, OwnerInv, CallInv, InSection
<1> QED BY <1>1, <1>2, <1>3, <1>4, <1>5, <1>6, <1>7, <1>8, <1>9, <1>10, <1>11
        DEF Next, Call, Step

-----------------------------------------------------------------------------
(***************************************************************************)
(* Data: the Channel object, what persist_channel has read, the rows.      *)
(***************************************************************************)

\* At most one thread works on a channel: the holder of its lock, or its add().
LEMMA SoleWorker ==
  ASSUME TypeOK, ControlInv, NEW t \in Threads, NEW u \in Threads,
         pc[t] \notin {"idle", "wait"}, pc[u] \notin {"idle", "wait"},
         job[t].ch = job[u].ch
  PROVE  t = u
  BY DEF TypeOK, ControlInv, OwnerInv, CallInv, InSection

\* A restart recovers the state that was applied under the recovered version,
\* which is the highest key of the table.
LEMMA RecoveredIsApplied ==
  ASSUME TypeOK, MemoryInv, RowsFaithful, NEW c \in Channels
  PROVE  /\ hist[c][RecoveredVer(c)] = RecoveredBal(c)
         /\ \A r \in rows[c] : r.key <= RecoveredVer(c)
         /\ rows[c] # {} => HasRow(c, RecoveredVer(c))
<1>1. CASE rows[c] = {}
  BY <1>1 DEF RecoveredBal, RecoveredVer, MemoryInv
<1>2. CASE rows[c] # {}
  <2>1. /\ LatestRow(c) \in rows[c]
        /\ \A q \in rows[c] : q.key <= LatestRow(c).key
    BY <1>2, LatestRowExists DEF TypeOK
  <2> QED BY <1>2, <2>1 DEF RecoveredBal, RecoveredVer, RowsFaithful, HasRow
<1> QED BY <1>1, <1>2

\* add(): registering a state that is recorded as applied, and not older than
\* any row, keeps the data consistent.
LEMMA RegisterData ==
  ASSUME TypeOK, ControlInv, DataInv, NEW t \in Threads, NEW c \in Channels,
         NEW b \in Allocations, NEW v \in Versions, NEW conf,
         Register(t, c, b, v, conf), hist' = hist,
         hist[c][v] = b, \A r \in rows[c] : r.key <= v
  PROVE  DataInv'
<1> USE DEF store, budget
<1>1. \A u \in Threads : pc[u] # "idle" => job[u].ch # c
  BY DEF ControlInv, CallInv, Register
<1>2. BufInv'
  BY <1>1 DEF TypeOK, DataInv, BufInv, Register, Goto
<1>3. MemoryInv'
  BY DEF TypeOK, DataInv, MemoryInv, Register
<1>4. RowsFaithful'
  BY DEF DataInv, RowsFaithful, Register
<1> QED BY <1>2, <1>3, <1>4 DEF DataInv

\* A step that leaves states and rows alone, and puts no thread into the
\* window of the two reads.
LEMMA FrameData ==
  ASSUME TypeOK, DataInv, registered' \subseteq registered,
         UNCHANGED <<bal, ver, rows, hist>>,
         \A u \in Threads : \/ pc'[u] \notin {"jsonver", "row"}
                            \/ pc'[u] = pc[u] /\ job'[u] = job[u] /\ buf'[u] = buf[u]
  PROVE  DataInv'
  BY DEF TypeOK, DataInv, BufInv, MemoryInv, RowsFaithful

\* apply_transfer: nobody else is inside persist_channel for this channel, and
\* no row has the new version's key.
LEMMA ApplyData ==
  ASSUME TypeOK, ControlInv, DataInv, NEW t \in Threads, ApplyTransfer(t)
  PROVE  DataInv'
<1> DEFINE c == job[t].ch
<1> USE DEF store, budget
<1>1. c \in Channels /\ c \in registered /\ ver[c] \in Nat /\ ver[c] + 1 \in Versions
  BY ManagerAssumption DEF TypeOK, ControlInv, CallInv, ApplyTransfer, Versions
<1>2. PICK b : /\ bal' = [bal EXCEPT ![c] = b]
               /\ hist' = [hist EXCEPT ![c][ver[c] + 1] = b]
  BY <1>1 DEF ApplyTransfer, TypeOK
<1>3. \A u \in Threads : pc[u] \in {"jsonver", "row"} => job[u].ch # c
  BY SoleWorker DEF ApplyTransfer
<1>4. BufInv'
  BY <1>1, <1>2, <1>3 DEF TypeOK, DataInv, BufInv, ApplyTransfer, Goto
<1>5. MemoryInv'
  <2> SUFFICES ASSUME NEW d \in Channels
               PROVE  /\ hist'[d][0] = InitialBalances
                      /\ d \in registered' =>
                           /\ hist'[d][ver'[d]] = bal'[d]
                           /\ \A r \in rows'[d] : r.key <= ver'[d]
    BY DEF MemoryInv
  <2>1. CASE d = c
    <3>1. ver'[d] = ver[c] + 1 /\ bal'[d] = b /\ hist'[d][ver'[d]] = b
      BY <1>1, <1>2, <2>1 DEF TypeOK, ApplyTransfer
    <3>2. hist'[d][0] = hist[d][0]
      BY <1>1, <1>2, <2>1, ManagerAssumption DEF TypeOK, Versions
    <3>3. \A r \in rows'[d] : r.key <= ver'[d]
      <4>1. \A r \in rows[c] : r.key \in Nat /\ r.key <= ver[c]
        BY <1>1, ManagerAssumption DEF TypeOK, Rows, Versions, DataInv, MemoryInv
      <4> QED BY <1>1, <2>1, <3>1, <4>1 DEF ApplyTransfer
    <3> QED BY <3>1, <3>2, <3>3, <1>1, <2>1 DEF DataInv, MemoryInv
  <2>2. CASE d # c
    BY <1>1, <1>2, <2>2 DEF TypeOK, DataInv, MemoryInv, ApplyTransfer
  <2> QED BY <2>1, <2>2
<1>6. RowsFaithful'
  <2> SUFFICES ASSUME NEW d \in Channels, NEW r \in rows[d]
               PROVE  r.ver = r.key /\ r.bal = hist'[d][r.key]
    BY DEF RowsFaithful, ApplyTransfer
  <2>1. r.ver = r.key /\ r.bal = hist[d][r.key]
    BY DEF DataInv, RowsFaithful
  <2>2. r.key \in Versions
    BY DEF TypeOK, Rows
  <2>3. d = c => r.key # ver[c] + 1
    BY <1>1, <2>2, ManagerAssumption DEF DataInv, MemoryInv, Versions
  <2> QED BY <1>1, <1>2, <2>1, <2>2, <2>3 DEF TypeOK
<1> QED BY <1>4, <1>5, <1>6 DEF DataInv

\* put_channel_state: the row is the Channel's state, under its own version.
LEMMA PutStateData ==
  ASSUME TypeOK, ControlInv, DataInv, NEW t \in Threads, PutChannelState(t)
  PROVE  DataInv'
<1> DEFINE c == job[t].ch
<1> USE DEF memory, budget, history
<1>1. c \in Channels /\ c \in registered
  BY DEF TypeOK, ControlInv, CallInv, PutChannelState
<1>2. StateRow(t) = [key |-> ver[c], bal |-> bal[c], ver |-> ver[c]]
  BY DEF DataInv, BufInv, PutChannelState, StateRow
<1>3. /\ rows'[c] = {r \in rows[c] : r.key # ver[c]}
                      \cup {[key |-> ver[c], bal |-> bal[c], ver |-> ver[c]]}
      /\ \A d \in Channels : d # c => rows'[d] = rows[d]
  BY <1>1, <1>2 DEF TypeOK, PutChannelState, InsertOrReplace
<1>4. BufInv'
  BY DEF TypeOK, DataInv, BufInv, PutChannelState, Goto
<1>5. MemoryInv'
  <2>1. ver[c] \in Nat
    BY <1>1, ManagerAssumption DEF TypeOK, Versions
  <2>2. \A r \in rows'[c] : r.key <= ver[c]
    BY <1>1, <1>3, <2>1 DEF DataInv, MemoryInv
  <2> QED BY <1>1, <1>3, <2>2 DEF DataInv, MemoryInv, PutChannelState
<1>6. RowsFaithful'
  BY <1>1, <1>3 DEF DataInv, MemoryInv, RowsFaithful, PutChannelState
<1> QED BY <1>4, <1>5, <1>6 DEF DataInv

LEMMA DataStep ==
  ASSUME TypeOK, ControlInv, DataInv, [Next]_vars
  PROVE  DataInv'
<1> USE DEF memory, control, store, budget, history
<1>1. ASSUME NEW t \in Threads, NEW c \in Channels, AddFresh(t, c)
      PROVE  DataInv'
  <2>1. hist' = hist
    BY <1>1 DEF AddFresh, TypeOK, DataInv, MemoryInv
  <2>2. 0 \in Versions /\ rows[c] = {}
    BY <1>1, ManagerAssumption DEF Versions, AddFresh
  <2>3. hist[c][0] = InitialBalances
    BY DEF DataInv, MemoryInv
  <2> QED BY <1>1, <2>1, <2>2, <2>3, RegisterData, InitialIsAllocation DEF AddFresh
<1>2. ASSUME NEW t \in Threads, NEW c \in Channels, AddRecovered(t, c)
      PROVE  DataInv'
  BY <1>2, RegisterData, RecoveredType, RecoveredIsApplied DEF AddRecovered, DataInv
<1>3. ASSUME NEW t \in Threads, NEW c \in Channels,
             BeginTransfer(t, c) \/ BeginClose(t, c)
      PROVE  DataInv'
  BY <1>3, FrameData DEF BeginTransfer, BeginClose, Goto, TypeOK
<1>4. ASSUME NEW t \in Threads, Acquire(t) \/ Close(t)
      PROVE  DataInv'
  BY <1>4, FrameData DEF Acquire, Close, Goto, TypeOK
<1>5. ASSUME NEW t \in Threads, ApplyTransfer(t)
      PROVE  DataInv'
  BY <1>5, ApplyData
<1>6. ASSUME NEW t \in Threads,
             RejectTransfer(t) \/ RejectClose(t) \/ Return(t) \/ StoreFails(t)
      PROVE  DataInv'
  BY <1>6, FrameData
     DEF RejectTransfer, RejectClose, Return, StoreFails, EndCall, Goto, TypeOK
<1>7. ASSUME NEW t \in Threads, ReadConfirmed(t) \/ PutChannelMeta(t)
      PROVE  DataInv'
  BY <1>7, FrameData DEF ReadConfirmed, PutChannelMeta, Goto, TypeOK
<1>8. ASSUME NEW t \in Threads, ReadBalances(t) \/ ReadVersion(t)
      PROVE  DataInv'
  <2>1. BufInv'
    <3>1. CASE ReadBalances(t)
      BY <3>1 DEF TypeOK, DataInv, BufInv, ReadBalances, Goto
    <3>2. CASE ReadVersion(t)
      BY <3>2 DEF TypeOK, DataInv, BufInv, ReadVersion, Goto
    <3> QED BY <1>8, <3>1, <3>2
  <2>2. MemoryInv' /\ RowsFaithful'
    BY <1>8 DEF DataInv, MemoryInv, RowsFaithful, ReadBalances, ReadVersion
  <2> QED BY <2>1, <2>2 DEF DataInv
<1>9. ASSUME NEW t \in Threads, PutChannelState(t)
      PROVE  DataInv'
  BY <1>9, PutStateData
<1>10. ASSUME NEW c \in Channels, MarkConfirmed(c)
       PROVE  DataInv'
  BY <1>10, FrameData DEF MarkConfirmed
<1>11. CASE Crash
  BY <1>11, FrameData DEF Crash
<1>12. CASE UNCHANGED vars
  BY <1>12, FrameData DEF vars
<1> QED BY <1>1, <1>2, <1>3, <1>4, <1>5, <1>6, <1>7, <1>8, <1>9, <1>10, <1>11, <1>12
        DEF Next, Call, Step

-----------------------------------------------------------------------------
(***************************************************************************)
(* Durability: keys are never lost, so what was acknowledged stays.        *)
(***************************************************************************)

\* INSERT OR REPLACE never removes a key, and it adds the Channel's version.
LEMMA PutStateKeys ==
  ASSUME TypeOK, NEW t \in Threads, PutChannelState(t)
  PROVE  /\ HasRow(job[t].ch, ver[job[t].ch])'
         /\ \A c \in Channels, v \in Versions : HasRow(c, v) => HasRow(c, v)'
<1> DEFINE c == job[t].ch
<1> USE DEF memory
<1>1. c \in Channels /\ StateRow(t) \in Rows /\ StateRow(t).key = ver[c]
  BY DEF TypeOK, StateRow, Rows
<1>2. /\ rows'[c] = {r \in rows[c] : r.key # ver[c]} \cup {StateRow(t)}
      /\ \A d \in Channels : d # c => rows'[d] = rows[d]
  BY <1>1 DEF TypeOK, PutChannelState, InsertOrReplace
<1> QED BY <1>1, <1>2 DEF HasRow, PutChannelState

LEMMA KeysGrow ==
  ASSUME TypeOK, [Next]_vars
  PROVE  \A c \in Channels, v \in Versions : HasRow(c, v) => HasRow(c, v)'
<1> USE DEF memory, control, store, budget, history
<1>1. CASE rows' = rows
  BY <1>1 DEF HasRow
<1>2. CASE rows' # rows
  <2>1. \E t \in Threads : PutChannelState(t)
    BY <1>2 DEF Next, vars, Call, Step, AddFresh, AddRecovered, Register,
       BeginTransfer, BeginClose, Acquire, ApplyTransfer, RejectTransfer, Close,
       RejectClose, ReadConfirmed, PutChannelMeta, ReadBalances, ReadVersion,
       Return, StoreFails, MarkConfirmed, Crash
  <2> QED BY <2>1, PutStateKeys
<1> QED BY <1>1, <1>2

\* A step that acknowledges nothing, changes no version of a channel in use,
\* and lets no thread past a commit.
LEMMA FrameAck ==
  ASSUME TypeOK, AckInv, [Next]_vars, UNCHANGED <<meta, acked>>,
         \A u \in Threads :
            \/ pc'[u] \notin {"json", "jsonver", "row", "return"}
            \/ /\ job'[u] = job[u] /\ ver'[job[u].ch] = ver[job[u].ch]
               /\ pc[u] \in {"json", "jsonver", "row", "return"}
               /\ pc'[u] = "return" => pc[u] = "return"
  PROVE  AckInv'
<1>1. \A c \in Channels : acked[c] \in Versions
  BY DEF TypeOK
<1>2. \A c \in Channels : ver[c] \in Versions
  BY DEF TypeOK
<1>3. \A u \in Threads : job[u].ch \in Channels
  BY DEF TypeOK
<1>4. \A c \in Channels : acked'[c] > 0 => meta'[c] # "absent" /\ HasRow(c, acked[c])'
  BY <1>1, KeysGrow DEF AckInv
<1>5. \A u \in Threads : pc'[u] \in {"json", "jsonver", "row", "return"}
                           => meta'[job'[u].ch] # "absent"
  BY DEF AckInv
<1>6. ASSUME NEW u \in Threads, pc'[u] = "return"
      PROVE  HasRow(job[u].ch, ver[job[u].ch])'
  <2>1. HasRow(job[u].ch, ver[job[u].ch])
    BY <1>6 DEF AckInv
  <2>2. job'[u] = job[u] /\ ver'[job[u].ch] = ver[job[u].ch]
    BY <1>6
  <2>3. \E r \in rows'[job[u].ch] : r.key = ver[job[u].ch]
    BY <1>2, <1>3, <2>1, KeysGrow DEF HasRow
  <2> QED BY <2>2, <2>3 DEF HasRow
<1> QED BY <1>4, <1>5, <1>6 DEF AckInv, HasRow

LEMMA AckStep ==
  ASSUME TypeOK, ControlInv, DataInv, AckInv, [Next]_vars
  PROVE  AckInv'
<1> USE DEF memory, control, store, budget, history
<1>1. ASSUME NEW t \in Threads, NEW c \in Channels, AddFresh(t, c) \/ AddRecovered(t, c)
      PROVE  AckInv'
  <2>1. \A u \in Threads : pc[u] # "idle" => job[u].ch # c
    BY <1>1 DEF ControlInv, CallInv, AddFresh, AddRecovered, Register
  <2> QED BY <1>1, <2>1, FrameAck DEF AddFresh, AddRecovered, Register, Goto, TypeOK
<1>2. ASSUME NEW t \in Threads, NEW c \in Channels,
             BeginTransfer(t, c) \/ BeginClose(t, c)
      PROVE  AckInv'
  BY <1>2, FrameAck DEF BeginTransfer, BeginClose, Goto, TypeOK
<1>3. ASSUME NEW t \in Threads, Acquire(t) \/ Close(t)
      PROVE  AckInv'
  BY <1>3, FrameAck DEF Acquire, Close, Goto, TypeOK
<1>4. ASSUME NEW t \in Threads, ApplyTransfer(t)
      PROVE  AckInv'
  <2>1. \A u \in Threads : pc[u] \in {"json", "jsonver", "row", "return"}
                             => job[u].ch # job[t].ch
    BY <1>4, SoleWorker DEF ApplyTransfer
  <2> QED BY <1>4, <2>1, FrameAck DEF ApplyTransfer, Goto, TypeOK
<1>5. ASSUME NEW t \in Threads, RejectTransfer(t) \/ RejectClose(t) \/ StoreFails(t)
      PROVE  AckInv'
  BY <1>5, FrameAck DEF RejectTransfer, RejectClose, StoreFails, EndCall, Goto, TypeOK
<1>6. ASSUME NEW t \in Threads, ReadConfirmed(t) \/ ReadBalances(t) \/ ReadVersion(t)
      PROVE  AckInv'
  BY <1>6, FrameAck DEF ReadConfirmed, ReadBalances, ReadVersion, Goto, TypeOK
<1>7. ASSUME NEW t \in Threads, PutChannelMeta(t)
      PROVE  AckInv'
  BY <1>7 DEF PutChannelMeta, Goto, TypeOK, AckInv, HasRow
<1>8. ASSUME NEW t \in Threads, PutChannelState(t)
      PROVE  AckInv'
  <2>1. \A c \in Channels : acked[c] \in Versions /\ ver[c] \in Versions
    BY DEF TypeOK
  <2>2. \A u \in Threads : job[u].ch \in Channels
    BY DEF TypeOK
  <2>3. /\ \A c \in Channels : acked[c] > 0 => HasRow(c, acked[c])'
        /\ \A u \in Threads : pc[u] = "return" => HasRow(job[u].ch, ver[job[u].ch])'
    <3>1. UNCHANGED <<acked, ver, job>>
      BY <1>8 DEF PutChannelState
    <3>2. \A c \in Channels, v \in Versions :
            (\E r \in rows[c] : r.key = v) => (\E r \in rows'[c] : r.key = v)
      BY <1>8, PutStateKeys DEF HasRow
    <3> QED BY <2>1, <2>2, <3>1, <3>2 DEF AckInv, HasRow
  <2>4. \A u \in Threads : pc'[u] = "return" => pc[u] = "return" \/ u = t
    BY <1>8 DEF PutChannelState, Goto, TypeOK
  <2>5. \A u \in Threads : pc'[u] \in {"json", "jsonver", "row", "return"}
                             => pc[u] \in {"json", "jsonver", "row", "return"}
    BY <1>8 DEF PutChannelState, Goto, TypeOK
  <2> QED BY <1>8, <2>3, <2>4, <2>5, PutStateKeys DEF AckInv, PutChannelState, HasRow
<1>9. ASSUME NEW t \in Threads, Return(t)
      PROVE  AckInv'
  <2>1. job[t].ch \in Channels /\ HasRow(job[t].ch, ver[job[t].ch])
        /\ meta[job[t].ch] # "absent"
    BY <1>9 DEF TypeOK, AckInv, Return
  <2>2. \A u \in Threads : pc'[u] # "idle" => pc'[u] = pc[u]
    BY <1>9 DEF Return, EndCall, Goto, TypeOK
  <2> QED BY <1>9, <2>1, <2>2 DEF Return, TypeOK, AckInv, HasRow
<1>10. ASSUME NEW c \in Channels, MarkConfirmed(c)
       PROVE  AckInv'
  BY <1>10 DEF MarkConfirmed, AckInv, HasRow
<1>11. CASE Crash
  BY <1>11 DEF Crash, AckInv, HasRow
<1>12. CASE UNCHANGED vars
  BY <1>12 DEF vars, AckInv, HasRow
<1> QED BY <1>1, <1>2, <1>3, <1>4, <1>5, <1>6, <1>7, <1>8, <1>9, <1>10, <1>11, <1>12
        DEF Next, Call, Step

\* persist_channel is left only through its row, a failed commit or a crash.
LEMMA DurStep ==
  ASSUME TypeOK, ControlInv, DurInv, [Next]_vars
  PROVE  DurInv'
<1> USE DEF memory, control, store, budget, history
<1> SUFFICES ASSUME failures' = 0, NEW c \in registered',
                    \A t \in Threads : ~Persisting(t, c)'
             PROVE  HasRow(c, ver[c])'
  BY DEF DurInv
<1>1. ASSUME c \in Channels, c \in registered, failures = 0, ver'[c] = ver[c],
             \A t \in Threads : ~Persisting(t, c)
      PROVE  HasRow(c, ver[c])'
  <2>1. HasRow(c, ver[c])
    BY <1>1 DEF DurInv
  <2>2. \E r \in rows'[c] : r.key = ver[c]
    BY <1>1, <2>1, KeysGrow DEF HasRow, TypeOK
  <2> QED BY <1>1, <2>2 DEF HasRow
<1>2. ASSUME NEW t \in Threads, NEW d \in Channels, AddFresh(t, d) \/ AddRecovered(t, d)
      PROVE  HasRow(c, ver[c])'
  <2>1. c # d
    BY <1>2 DEF AddFresh, AddRecovered, Register, Persisting, Goto, TypeOK
  <2>2. c \in Channels /\ c \in registered /\ failures = 0 /\ ver'[c] = ver[c]
    BY <1>2, <2>1 DEF AddFresh, AddRecovered, Register, TypeOK
  <2>3. \A u \in Threads : ~Persisting(u, c)
    BY <1>2 DEF AddFresh, AddRecovered, Register, Persisting, Goto, TypeOK
  <2> QED BY <1>1, <2>2, <2>3
<1>3. ASSUME NEW t \in Threads, NEW d \in Channels,
             BeginTransfer(t, d) \/ BeginClose(t, d)
      PROVE  HasRow(c, ver[c])'
  BY <1>1, <1>3 DEF BeginTransfer, BeginClose, Persisting, Goto, TypeOK
<1>4. ASSUME NEW t \in Threads, Acquire(t)
      PROVE  HasRow(c, ver[c])'
  BY <1>1, <1>4 DEF Acquire, Persisting, Goto, TypeOK
<1>5. ASSUME NEW t \in Threads, ApplyTransfer(t) \/ Close(t)
      PROVE  HasRow(c, ver[c])'
  <2>1. c # job[t].ch
    BY <1>5 DEF ApplyTransfer, Close, Persisting, Goto, TypeOK
  <2>2. c \in Channels /\ c \in registered /\ failures = 0 /\ ver'[c] = ver[c]
    BY <1>5, <2>1 DEF ApplyTransfer, Close, TypeOK
  <2>3. \A u \in Threads : ~Persisting(u, c)
    BY <1>5 DEF ApplyTransfer, Close, Persisting, Goto, TypeOK
  <2> QED BY <1>1, <2>2, <2>3
<1>6. ASSUME NEW t \in Threads, RejectTransfer(t) \/ RejectClose(t) \/ Return(t)
      PROVE  HasRow(c, ver[c])'
  BY <1>1, <1>6 DEF RejectTransfer, RejectClose, Return, EndCall, Persisting, Goto, TypeOK
<1>7. ASSUME NEW t \in Threads, ReadConfirmed(t) \/ PutChannelMeta(t)
      PROVE  HasRow(c, ver[c])'
  BY <1>1, <1>7 DEF ReadConfirmed, PutChannelMeta, Persisting, Goto, TypeOK
<1>8. ASSUME NEW t \in Threads, ReadBalances(t) \/ ReadVersion(t)
      PROVE  HasRow(c, ver[c])'
  BY <1>1, <1>8 DEF ReadBalances, ReadVersion, Persisting, Goto, TypeOK
<1>9. ASSUME NEW t \in Threads, PutChannelState(t)
      PROVE  HasRow(c, ver[c])'
  <2>1. CASE c = job[t].ch
    BY <1>9, <2>1, PutStateKeys DEF PutChannelState, HasRow
  <2>2. CASE c # job[t].ch
    BY <1>1, <1>9, <2>2 DEF PutChannelState, Persisting, Goto, TypeOK
  <2> QED BY <2>1, <2>2
<1>10. ASSUME NEW t \in Threads, StoreFails(t)
       PROVE  HasRow(c, ver[c])'
  BY <1>10, ManagerAssumption DEF StoreFails, TypeOK
<1>11. ASSUME NEW d \in Channels, MarkConfirmed(d)
       PROVE  HasRow(c, ver[c])'
  BY <1>1, <1>11 DEF MarkConfirmed, Persisting, TypeOK
<1>12. CASE Crash
  BY <1>12 DEF Crash
<1>13. CASE UNCHANGED vars
  BY <1>1, <1>13 DEF vars, Persisting, TypeOK
<1> QED BY <1>2, <1>3, <1>4, <1>5, <1>6, <1>7, <1>8, <1>9, <1>10, <1>11, <1>12, <1>13
        DEF Next, Call, Step

-----------------------------------------------------------------------------
(***************************************************************************)
(* The theorems.                                                           *)
(***************************************************************************)

LEMMA InvInit == Init => Inv
<1> SUFFICES ASSUME Init PROVE Inv
  OBVIOUS
<1>1. TypeOK
  BY TypeInit
<1>2. ControlInv
  BY ManagerAssumption DEF Init, ControlInv, OwnerInv, CallInv, InSection
<1>3. 0 \in Versions
  BY ManagerAssumption DEF Versions
<1>4. DataInv
  BY <1>3 DEF Init, DataInv, BufInv, MemoryInv, RowsFaithful
<1>5. AckInv
  BY DEF Init, AckInv
<1>6. DurInv
  BY DEF Init, DurInv
<1> QED BY <1>1, <1>2, <1>4, <1>5, <1>6 DEF Inv

LEMMA Invariance ==
  ASSUME ~EarlyUse
  PROVE  Spec => []Inv
<1>1. Inv /\ [Next]_vars => Inv'
  BY TypeStep, ControlStep, DataStep, AckStep, DurStep DEF Inv
<1> QED BY <1>1, InvInit, PTL DEF Spec

\* No stored state is torn or mislabelled (persist_channel, put_channel_state):
\* for any number of threads, crashes and failed commits, the row of version v
\* holds exactly what apply_transfer applied as version v.
THEOREM RowsStayFaithful ==
  ASSUME ~EarlyUse
  PROVE  Spec => []RowsFaithful
<1>1. Inv => RowsFaithful
  BY DEF Inv, DataInv
<1> QED BY <1>1, Invariance, PTL

\* What apply_transfer has returned to a caller survives every later crash,
\* failure and concurrent call, with the balances it was returned for.
THEOREM AcknowledgedIsDurable ==
  ASSUME ~EarlyUse
  PROVE  Spec => []AckedDurable
<1>1. ASSUME Inv PROVE AckedDurable
  <2> SUFFICES ASSUME NEW c \in Channels, acked[c] > 0
               PROVE  /\ meta[c] # "absent"
                      /\ \E r \in rows[c] : r.key = acked[c] /\ r.bal = hist[c][acked[c]]
                      /\ RecoveredVer(c) >= acked[c]
    BY DEF AckedDurable
  <2>1. meta[c] # "absent" /\ HasRow(c, acked[c])
    BY <1>1 DEF Inv, AckInv
  <2>2. PICK r \in rows[c] : r.key = acked[c]
    BY <2>1 DEF HasRow
  <2>3. r.bal = hist[c][acked[c]]
    BY <1>1, <2>2 DEF Inv, DataInv, RowsFaithful
  <2>4. acked[c] \in Nat /\ RecoveredVer(c) \in Nat
    BY <1>1, RecoveredType, ManagerAssumption DEF Inv, TypeOK, Versions
  <2>5. acked[c] <= RecoveredVer(c)
    BY <1>1, <2>2, RecoveredIsApplied DEF Inv, DataInv
  <2> QED BY <2>1, <2>2, <2>3, <2>4, <2>5
<1> QED BY <1>1, Invariance, PTL

\* Channel object and store agree on every channel nobody is working on, as
\* long as no commit has failed (apply_transfer, "atomically apply").
THEOREM MemoryAgreesWithStore ==
  ASSUME ~EarlyUse
  PROVE  Spec => []MemoryIsDurable
<1>1. ASSUME Inv PROVE MemoryIsDurable
  <2> SUFFICES ASSUME failures = 0, NEW c \in Channels, Quiescent(c)
               PROVE  bal[c] = RecoveredBal(c) /\ ver[c] = RecoveredVer(c)
    BY DEF MemoryIsDurable
  <2>1. \A t \in Threads : ~Persisting(t, c)
    <3> SUFFICES ASSUME NEW t \in Threads, Persisting(t, c) PROVE FALSE
      OBVIOUS
    <3>1. job[t].op # "add"
      BY <1>1 DEF Quiescent, Adding, Persisting, Inv, TypeOK
    <3>2. lock[c] = t
      BY <1>1, <3>1 DEF Inv, ControlInv, OwnerInv, InSection, Persisting
    <3> QED BY <3>2, ManagerAssumption DEF Quiescent, LockFree
  <2>2. PICK r \in rows[c] : r.key = ver[c]
    BY <1>1, <2>1 DEF Inv, DurInv, Quiescent, HasRow
  <2>3. ver[c] \in Nat /\ RecoveredVer(c) \in Nat
    BY <1>1, RecoveredType, ManagerAssumption DEF Inv, TypeOK, Versions
  <2>4. ver[c] <= RecoveredVer(c)
    BY <1>1, <2>2, RecoveredIsApplied DEF Inv, DataInv
  <2>5. RecoveredVer(c) <= ver[c]
    <3>1. HasRow(c, RecoveredVer(c))
      BY <1>1, <2>2, RecoveredIsApplied DEF Inv, DataInv
    <3> QED BY <1>1, <3>1 DEF Inv, DataInv, MemoryInv, Quiescent, HasRow
  <2>6. ver[c] = RecoveredVer(c)
    BY <2>3, <2>4, <2>5
  <2>7. bal[c] = RecoveredBal(c)
    BY <1>1, <2>6, RecoveredIsApplied DEF Inv, DataInv, MemoryInv, Quiescent
  <2> QED BY <2>6, <2>7
<1> QED BY <1>1, Invariance, PTL

\* A close never settles less than what was acknowledged or is in the store:
\* cooperative_close reads the Channel object, which no row is ahead of.
THEOREM CloseSettlesLatest ==
  ASSUME ~EarlyUse
  PROVE  Spec => CloseUsesLatest
<1> DEFINE Settles == \A c \in Channels : sealedAt'[c] # sealedAt[c] =>
        sealedAt'[c] >= acked[c] /\ sealedAt'[c] >= RecoveredVer(c)
<1>1. ASSUME Inv, [Next]_vars PROVE [Settles]_vars
  <2> USE DEF memory, control, store, budget, history
  <2> SUFFICES ASSUME NEW c \in Channels, sealedAt'[c] # sealedAt[c]
               PROVE  sealedAt'[c] >= acked[c] /\ sealedAt'[c] >= RecoveredVer(c)
    OBVIOUS
  <2>1. PICK t \in Threads : Close(t)
    BY <1>1 DEF Next, vars, Call, Step, AddFresh, AddRecovered, Register,
       BeginTransfer, BeginClose, Acquire, ApplyTransfer, RejectTransfer,
       RejectClose, ReadConfirmed, PutChannelMeta, ReadBalances, ReadVersion,
       PutChannelState, Return, StoreFails, MarkConfirmed, Crash
  <2>2. c = job[t].ch /\ sealedAt'[c] = ver[c]
    BY <1>1, <2>1 DEF Inv, TypeOK, Close, SettledVersion
  <2>3. c \in registered
    BY <1>1, <2>1, <2>2 DEF Inv, ControlInv, CallInv, Close
  <2>4. ver[c] \in Nat /\ acked[c] \in Nat /\ RecoveredVer(c) \in Nat
    BY <1>1, RecoveredType, ManagerAssumption DEF Inv, TypeOK, Versions
  <2>5. acked[c] <= ver[c]
    BY <1>1, <2>3, <2>4 DEF Inv, AckInv, DataInv, MemoryInv, HasRow
  <2>6. RecoveredVer(c) <= ver[c]
    <3>1. CASE rows[c] = {}
      BY <2>4, <3>1 DEF RecoveredVer
    <3>2. CASE rows[c] # {}
      BY <1>1, <2>3, <3>2, RecoveredIsApplied DEF Inv, DataInv, MemoryInv, HasRow
    <3> QED BY <3>1, <3>2
  <2> QED BY <2>2, <2>4, <2>5, <2>6
<1> QED BY <1>1, Invariance, PTL DEF Spec, CloseUsesLatest

\* The version recover_channel returns is the highest key of the table.
RecoveredIsMax ==
    \A c \in Channels :
        /\ RecoveredVer(c) \in Versions
        /\ \A r \in rows[c] : r.key <= RecoveredVer(c)
        /\ IF rows[c] = {} THEN RecoveredVer(c) = 0 ELSE HasRow(c, RecoveredVer(c))

\* The version a restart would recover never goes back: rows are keyed by
\* version, replaced only under their own key, and never deleted.
THEOREM RecoveryIsMonotone ==
  ASSUME ~EarlyUse
  PROVE  Spec => LatestNeverRegresses
<1> DEFINE Grows == \A c \in Channels : RecoveredVer(c)' >= RecoveredVer(c)
<1>1. Inv => RecoveredIsMax
  <2> SUFFICES ASSUME Inv, NEW c \in Channels
               PROVE  /\ RecoveredVer(c) \in Versions
                      /\ \A r \in rows[c] : r.key <= RecoveredVer(c)
                      /\ IF rows[c] = {} THEN RecoveredVer(c) = 0
                                         ELSE HasRow(c, RecoveredVer(c))
    BY DEF RecoveredIsMax
  <2>1. RecoveredVer(c) \in Versions
    BY RecoveredType DEF Inv
  <2>2. /\ \A r \in rows[c] : r.key <= RecoveredVer(c)
        /\ rows[c] # {} => HasRow(c, RecoveredVer(c))
    BY RecoveredIsApplied DEF Inv, DataInv
  <2>3. rows[c] = {} => RecoveredVer(c) = 0
    BY DEF RecoveredVer
  <2> QED BY <2>1, <2>2, <2>3
<1>2. ASSUME TypeOK, RecoveredIsMax, RecoveredIsMax', [Next]_vars
      PROVE  Grows
  <2> SUFFICES ASSUME NEW c \in Channels
               PROVE  RecoveredVer(c)' >= RecoveredVer(c)
    OBVIOUS
  <2> DEFINE old == RecoveredVer(c)  new == RecoveredVer(c)'
  <2>1. old \in Nat /\ new \in Nat /\ old \in Versions
    BY <1>2, ManagerAssumption DEF RecoveredIsMax, Versions
  <2>2. \A r \in rows'[c] : r.key <= new
    BY <1>2 DEF RecoveredIsMax
  <2>3. CASE rows[c] = {}
    <3>1. old = 0
      BY <1>2, <2>3 DEF RecoveredIsMax
    <3> HIDE DEF old, new
    <3> QED BY <2>1, <3>1 DEF old, new
  <2>4. CASE rows[c] # {}
    <3>1. HasRow(c, old)
      BY <1>2, <2>4 DEF RecoveredIsMax
    <3>2. \E r \in rows'[c] : r.key = old
      BY <1>2, <2>1, <3>1, KeysGrow DEF HasRow
    <3> QED BY <2>1, <2>2, <3>2
  <2> QED BY <2>3, <2>4
<1>3. Inv => TypeOK
  BY DEF Inv
<1> HIDE DEF Grows
<1>4. Spec => [][Grows]_vars
  BY <1>1, <1>2, <1>3, Invariance, PTL DEF Spec
<1> QED BY <1>4 DEF LatestNeverRegresses, Grows

-----------------------------------------------------------------------------
(***************************************************************************)
(* The manager implements the committed ledger.  While no commit fails, a  *)
(* row commits one transfer.  A failed commit leaves the Channel object    *)
(* ahead of the store: the next row commits all that was applied since.    *)
(***************************************************************************)

\* b is one accepted transfer away from a.
OneTransfer(a, b) ==
    \E s, r \in Parties, d \in 0 .. MicroUnits :
        TransferOK(a, s, r, d) /\ b = Transfer(a, s, r, d)

\* A Channel object holds the committed state or the transfer after it.
CommitInv ==
    failures = 0 => \A c \in registered :
        \/ RecoveredVer(c) = ver[c]
        \/ ver[c] = RecoveredVer(c) + 1 /\ OneTransfer(RecoveredBal(c), bal[c])

\* What a restart would recover is the state applied under the highest key.
RecoveredIs ==
    RecoveredIsMax /\ \A c \in Channels : /\ RecoveredBal(c) \in Allocations
                                          /\ hist[c][RecoveredVer(c)] = RecoveredBal(c)

LEMMA RecoveredHolds == Inv => RecoveredIs
<1> SUFFICES ASSUME Inv, NEW c \in Channels
             PROVE  /\ RecoveredVer(c) \in Versions
                    /\ \A r \in rows[c] : r.key <= RecoveredVer(c)
                    /\ IF rows[c] = {} THEN RecoveredVer(c) = 0
                                       ELSE HasRow(c, RecoveredVer(c))
                    /\ RecoveredBal(c) \in Allocations
                    /\ hist[c][RecoveredVer(c)] = RecoveredBal(c)
  BY DEF RecoveredIs, RecoveredIsMax
<1>1. RecoveredVer(c) \in Versions /\ RecoveredBal(c) \in Allocations
  BY RecoveredType DEF Inv
<1>2. /\ \A r \in rows[c] : r.key <= RecoveredVer(c)
      /\ rows[c] # {} => HasRow(c, RecoveredVer(c))
      /\ hist[c][RecoveredVer(c)] = RecoveredBal(c)
  BY RecoveredIsApplied DEF Inv, DataInv
<1>3. rows[c] = {} => RecoveredVer(c) = 0
  BY DEF RecoveredVer
<1> QED BY <1>1, <1>2, <1>3

\* A step that leaves a channel's rows alone leaves what would be recovered.
LEMMA RecoveredFrame ==
  ASSUME NEW c \in Channels, rows'[c] = rows[c]
  PROVE  RecoveredVer(c)' = RecoveredVer(c) /\ RecoveredBal(c)' = RecoveredBal(c)
<1>1. LatestRow(c)' = LatestRow(c)
  BY Zenon DEF LatestRow
<1> QED BY <1>1 DEF RecoveredVer, RecoveredBal

\* A channel nobody is persisting is recovered as it is in memory.
LEMMA CommittedWhenIdle ==
  ASSUME Inv, RecoveredIs, failures = 0, NEW c \in registered,
         \A t \in Threads : ~Persisting(t, c)
  PROVE  RecoveredVer(c) = ver[c] /\ RecoveredBal(c) = bal[c]
<1>1. c \in Channels /\ HasRow(c, ver[c])
  BY DEF Inv, TypeOK, DurInv
<1>2. ver[c] \in Nat /\ RecoveredVer(c) \in Nat
  BY <1>1, ManagerAssumption DEF Inv, TypeOK, RecoveredIs, RecoveredIsMax, Versions
<1>3. ver[c] <= RecoveredVer(c)
  BY <1>1 DEF RecoveredIs, RecoveredIsMax, HasRow
<1>4. HasRow(c, RecoveredVer(c))
  BY <1>1 DEF RecoveredIs, RecoveredIsMax, HasRow
<1>5. RecoveredVer(c) <= ver[c]
  BY <1>1, <1>4 DEF Inv, DataInv, MemoryInv, HasRow
<1>6. RecoveredVer(c) = ver[c]
  BY <1>2, <1>3, <1>5
<1> QED BY <1>1, <1>6 DEF RecoveredIs, Inv, DataInv, MemoryInv

\* In the body under the lock nobody, not even the owner, is persisting.
LEMMA CritIsIdle ==
  ASSUME Inv, NEW t \in Threads, pc[t] = "crit"
  PROVE  \A u \in Threads : ~Persisting(u, job[t].ch)
  BY SoleWorker DEF Inv, Persisting

\* Committing the row makes the Channel's state the recovered one.
LEMMA PutCommits ==
  ASSUME Inv, Inv', RecoveredIs', NEW t \in Threads, PutChannelState(t),
         NEW c \in Channels, c = job[t].ch
  PROVE  /\ c \in registered
         /\ RecoveredVer(c)' = ver[c] /\ RecoveredBal(c)' = bal[c]
         /\ \A d \in Channels : d # c => /\ RecoveredVer(d)' = RecoveredVer(d)
                                         /\ RecoveredBal(d)' = RecoveredBal(d)
<1> DEFINE new == RecoveredVer(c)'
<1>1. c \in Channels /\ c \in registered
  BY DEF Inv, TypeOK, ControlInv, CallInv, PutChannelState
<1>2. UNCHANGED <<registered, bal, ver, hist, job>>
  BY DEF PutChannelState, memory, history
<1>3. \E r \in rows'[c] : r.key = ver[c]
  <2>1. HasRow(job[t].ch, ver[job[t].ch])'
    BY PutStateKeys DEF Inv
  <2> QED BY <1>2, <2>1 DEF HasRow
<1>4. /\ \A r \in rows'[c] : r.key <= new
      /\ \E r \in rows'[c] : r.key = new
      /\ new \in Versions /\ hist'[c][new] = RecoveredBal(c)'
  BY <1>1, <1>3 DEF RecoveredIs, RecoveredIsMax, HasRow
<1>5. \A r \in rows'[c] : r.key <= ver[c]
  BY <1>1, <1>2 DEF Inv, DataInv, MemoryInv
<1>6. hist[c][ver[c]] = bal[c] /\ ver[c] \in Versions
  BY <1>1 DEF Inv, TypeOK, DataInv, MemoryInv
<1> HIDE DEF new
<1>7. new = ver[c]
  BY <1>3, <1>4, <1>5, <1>6, ManagerAssumption DEF Versions
<1>8. \A d \in Channels : d # c => rows'[d] = rows[d]
  BY DEF Inv, TypeOK, PutChannelState
<1>9. \A d \in Channels : d # c => /\ RecoveredVer(d)' = RecoveredVer(d)
                                   /\ RecoveredBal(d)' = RecoveredBal(d)
  BY <1>8, RecoveredFrame
<1>10. RecoveredVer(c)' = ver[c] /\ RecoveredBal(c)' = bal[c]
  BY <1>2, <1>4, <1>6, <1>7 DEF new
<1> QED BY <1>1, <1>9, <1>10

\* Every other step leaves the rows alone.
LEMMA RowsFrame ==
  ASSUME [Next]_vars, ~ \E t \in Threads : PutChannelState(t)
  PROVE  rows' = rows
<1> USE DEF memory, control, store, budget, history
<1> QED BY DEF Next, vars, Call, Step, AddFresh, AddRecovered, Register,
       BeginTransfer, BeginClose, Acquire, ApplyTransfer, RejectTransfer, Close,
       RejectClose, ReadConfirmed, PutChannelMeta, ReadBalances, ReadVersion,
       Return, StoreFails, MarkConfirmed, Crash

LEMMA CommitStep ==
  ASSUME Inv, Inv', RecoveredIs, RecoveredIs', CommitInv, [Next]_vars
  PROVE  CommitInv'
<1> USE DEF memory, control, store, budget, history
<1> SUFFICES ASSUME failures' = 0, NEW c \in registered'
             PROVE  \/ RecoveredVer(c)' = ver'[c]
                    \/ /\ ver'[c] = RecoveredVer(c)' + 1
                       /\ OneTransfer(RecoveredBal(c)', bal'[c])
  BY DEF CommitInv, OneTransfer
<1> DEFINE Goal == \/ RecoveredVer(c)' = ver'[c]
                   \/ /\ ver'[c] = RecoveredVer(c)' + 1
                      /\ OneTransfer(RecoveredBal(c)', bal'[c])
<1>1. c \in Channels
  BY DEF Inv, TypeOK
<1>2. ASSUME c \in registered, failures = 0, rows'[c] = rows[c],
             ver'[c] = ver[c], bal'[c] = bal[c]
      PROVE  Goal
  <2>1. RecoveredVer(c)' = RecoveredVer(c) /\ RecoveredBal(c)' = RecoveredBal(c)
    BY <1>1, <1>2, RecoveredFrame
  <2>2. \/ RecoveredVer(c) = ver[c]
        \/ ver[c] = RecoveredVer(c) + 1 /\ OneTransfer(RecoveredBal(c), bal[c])
    BY <1>2 DEF CommitInv
  <2> QED BY <1>2, <2>1, <2>2
<1>3. ASSUME NEW t \in Threads, NEW d \in Channels, AddFresh(t, d)
      PROVE  Goal
  <2>1. CASE c = d
    <3>1. rows'[c] = {} /\ ver'[c] = 0
      BY <1>1, <1>3, <2>1 DEF AddFresh, Register, Inv, TypeOK
    <3> QED BY <1>1, <3>1 DEF RecoveredVer
  <2>2. CASE c # d
    BY <1>1, <1>2, <1>3, <2>2 DEF AddFresh, Register, Inv, TypeOK
  <2> QED BY <2>1, <2>2
<1>4. ASSUME NEW t \in Threads, NEW d \in Channels, AddRecovered(t, d)
      PROVE  Goal
  <2>1. CASE c = d
    <3>1. rows' = rows /\ ver'[c] = RecoveredVer(c)
      BY <1>1, <1>4, <2>1 DEF AddRecovered, Register, Inv, TypeOK
    <3> QED BY <1>1, <3>1, RecoveredFrame
  <2>2. CASE c # d
    BY <1>1, <1>2, <1>4, <2>2 DEF AddRecovered, Register, Inv, TypeOK
  <2> QED BY <2>1, <2>2
<1>5. ASSUME NEW t \in Threads, ApplyTransfer(t)
      PROVE  Goal
  <2>1. CASE c = job[t].ch
    <3>1. rows' = rows /\ registered' = registered /\ failures = 0 /\ pc[t] = "crit"
      BY <1>5 DEF ApplyTransfer
    <3>2. RecoveredVer(c) = ver[c] /\ RecoveredBal(c) = bal[c]
      BY <2>1, <3>1, CritIsIdle, CommittedWhenIdle
    <3>3. RecoveredVer(c)' = ver[c] /\ RecoveredBal(c)' = bal[c]
      BY <1>1, <3>1, <3>2, RecoveredFrame
    <3>4. ver'[c] = ver[c] + 1 /\ OneTransfer(bal[c], bal'[c])
      BY <1>1, <1>5, <2>1 DEF ApplyTransfer, OneTransfer, Inv, TypeOK
    <3> QED BY <3>3, <3>4
  <2>2. CASE c # job[t].ch
    BY <1>1, <1>2, <1>5, <2>2 DEF ApplyTransfer, Inv, TypeOK
  <2> QED BY <2>1, <2>2
<1>6. ASSUME NEW t \in Threads, PutChannelState(t)
      PROVE  Goal
  <2>1. registered' = registered /\ failures = 0 /\ ver' = ver /\ bal' = bal
    BY <1>6 DEF PutChannelState
  <2>2. CASE c = job[t].ch
    BY <1>1, <1>6, <2>1, <2>2, PutCommits
  <2>3. CASE c # job[t].ch
    <3>1. rows'[c] = rows[c]
      BY <1>1, <1>6, <2>3 DEF PutChannelState, Inv, TypeOK
    <3> QED BY <1>2, <2>1, <3>1
  <2> QED BY <2>2, <2>3
<1>7. ASSUME NEW t \in Threads, StoreFails(t)
      PROVE  Goal
  BY <1>7, ManagerAssumption DEF StoreFails, Inv, TypeOK
<1>8. ASSUME Crash PROVE Goal
  BY <1>8 DEF Crash
<1>9. ASSUME UNCHANGED <<registered, ver, bal, rows, failures>>
      PROVE  Goal
  BY <1>2, <1>9
<1>10. ASSUME NEW t \in Threads, NEW d \in Channels, BeginTransfer(t, d) \/ BeginClose(t, d)
       PROVE  Goal
  BY <1>9, <1>10 DEF BeginTransfer, BeginClose
<1>11. ASSUME NEW t \in Threads,
              \/ Acquire(t) \/ RejectTransfer(t) \/ Close(t) \/ RejectClose(t)
              \/ ReadConfirmed(t) \/ PutChannelMeta(t) \/ ReadBalances(t)
              \/ ReadVersion(t) \/ Return(t)
       PROVE  Goal
  BY <1>9, <1>11 DEF Acquire, RejectTransfer, Close, RejectClose, ReadConfirmed,
     PutChannelMeta, ReadBalances, ReadVersion, Return
<1>12. ASSUME NEW d \in Channels, MarkConfirmed(d)
       PROVE  Goal
  BY <1>9, <1>12 DEF MarkConfirmed
<1>13. ASSUME UNCHANGED vars PROVE Goal
  BY <1>9, <1>13 DEF vars
<1> HIDE DEF Goal
<1>14. Goal
  <2>1. ASSUME NEW t \in Threads, NEW d \in Channels, Call(t, d) PROVE Goal
    BY <1>3, <1>4, <1>10, <2>1 DEF Call
  <2>2. ASSUME NEW t \in Threads, Step(t) PROVE Goal
    BY <1>5, <1>6, <1>11, <2>2 DEF Step
  <2>3. CASE Next
    BY <1>7, <1>8, <1>12, <2>1, <2>2, <2>3 DEF Next
  <2> QED BY <1>13, <2>3
<1> QED BY <1>14 DEF Goal

\* Whatever was applied divides the whole fund.
FundInv == \A c \in Channels : \A v \in Versions : Conserved(hist[c][v])

LEMMA FundStep ==
  ASSUME Inv, FundInv, [Next]_vars
  PROVE  FundInv'
<1> USE DEF memory, control, store, budget, history
<1>1. ASSUME hist' = hist PROVE FundInv'
  BY <1>1 DEF FundInv, Conserved, Total
<1>2. ASSUME NEW t \in Threads, ApplyTransfer(t)
      PROVE  FundInv'
  <2>0. PICK c \in Channels : c = job[t].ch
    BY DEF Inv, TypeOK
  <2>1. PICK s \in Parties, r \in Parties, d \in 0 .. MicroUnits :
          /\ TransferOK(bal[c], s, r, d)
          /\ hist' = [hist EXCEPT ![c][ver[c] + 1] = Transfer(bal[c], s, r, d)]
    <3>1. \E s \in Parties, r \in Parties, d \in 0 .. MicroUnits :
            /\ TransferOK(bal[job[t].ch], s, r, d)
            /\ hist' = [hist EXCEPT ![job[t].ch][ver[job[t].ch] + 1]
                           = Transfer(bal[job[t].ch], s, r, d)]
      BY <1>2, Zenon DEF ApplyTransfer
    <3> QED BY <2>0, <3>1, Zenon
  <2>2. bal[c] \in Allocations /\ ver[c] \in Versions /\ hist[c][ver[c]] = bal[c]
    BY <1>2, <2>0 DEF Inv, TypeOK, ControlInv, CallInv, DataInv, MemoryInv, ApplyTransfer
  <2>3. d \in Nat
    BY ConfigAssumption DEF MicroUnits
  <2>4. Conserved(Transfer(bal[c], s, r, d))
    BY <2>1, <2>2, <2>3, TransferConserves DEF FundInv, Conserved
  <2> SUFFICES ASSUME NEW e \in Channels, NEW v \in Versions
               PROVE  Conserved(hist'[e][v])
    BY DEF FundInv, Conserved, Total
  <2>5. hist'[e][v] = hist[e][v] \/ hist'[e][v] = Transfer(bal[c], s, r, d)
    BY <2>1 DEF Inv, TypeOK
  <2> QED BY <2>4, <2>5 DEF FundInv
<1>3. ASSUME NEW t \in Threads, NEW c \in Channels, AddFresh(t, c)
      PROVE  FundInv'
  <2>1. hist' = [hist EXCEPT ![c][0] = InitialBalances]
    BY <1>3 DEF AddFresh
  <2> SUFFICES ASSUME NEW e \in Channels, NEW v \in Versions
               PROVE  Conserved(hist'[e][v])
    BY DEF FundInv, Conserved, Total
  <2>2. hist'[e][v] = hist[e][v] \/ hist'[e][v] = InitialBalances
    BY <2>1 DEF Inv, TypeOK
  <2> QED BY <2>2, InitialConserved DEF FundInv
<1>4. ASSUME \A t \in Threads : ~ApplyTransfer(t),
             \A t \in Threads, c \in Channels : ~AddFresh(t, c)
      PROVE  hist' = hist
  BY <1>4 DEF Next, vars, Call, Step, AddRecovered, Register, BeginTransfer,
     BeginClose, Acquire, RejectTransfer, Close, RejectClose, ReadConfirmed,
     PutChannelMeta, ReadBalances, ReadVersion, PutChannelState, Return,
     StoreFails, MarkConfirmed, Crash
<1> QED BY <1>1, <1>2, <1>3, <1>4

\* The Channel object is never behind the store.
LEMMA RecoveredNotAhead ==
  ASSUME Inv, RecoveredIs, NEW c \in registered
  PROVE  RecoveredVer(c) <= ver[c] /\ RecoveredVer(c) \in Nat /\ ver[c] \in Nat
<1>1. c \in Channels /\ ver[c] \in Nat /\ RecoveredVer(c) \in Nat
  BY RecoveredType, ManagerAssumption DEF Inv, TypeOK, Versions
<1>2. CASE rows[c] = {}
  BY <1>1, <1>2 DEF RecoveredVer
<1>3. CASE rows[c] # {}
  <2>1. PICK r \in rows[c] : r.key = RecoveredVer(c)
    BY <1>1, <1>3 DEF RecoveredIs, RecoveredIsMax, HasRow
  <2> QED BY <1>1, <2>1 DEF Inv, DataInv, MemoryInv
<1> QED BY <1>2, <1>3

\* One step of the manager, seen through the store.
LEMMA LedgerStep ==
  ASSUME Inv, Inv', RecoveredIs, RecoveredIs', CommitInv, FundInv, [Next]_vars
  PROVE  [Committed!LedgerNext]_(Committed!ledger)
<1> USE DEF memory, control, store, budget, history
<1> DEFINE ver0 == [c \in Channels |-> RecoveredVer(c)]
           bal0 == [c \in Channels |-> RecoveredBal(c)]
           ver1 == [c \in Channels |-> RecoveredVer(c)']
           bal1 == [c \in Channels |-> RecoveredBal(c)']
<1>1. ASSUME NEW t \in Threads, PutChannelState(t)
      PROVE  [Committed!LedgerNext]_(Committed!ledger)
  <2>0. PICK c \in Channels : c = job[t].ch
    BY DEF Inv, TypeOK
  <2>1. /\ c \in registered
        /\ RecoveredVer(c)' = ver[c] /\ RecoveredBal(c)' = bal[c]
        /\ \A d \in Channels : d # c => /\ RecoveredVer(d)' = RecoveredVer(d)
                                        /\ RecoveredBal(d)' = RecoveredBal(d)
    BY <1>1, <2>0, PutCommits
  <2>2. sealedAt' = sealedAt /\ failures' = failures
    BY <1>1 DEF PutChannelState
  <2>3. CASE RecoveredVer(c) = ver[c]
    <3>1. RecoveredBal(c) = bal[c]
      BY <2>1, <2>3 DEF Inv, DataInv, MemoryInv, RecoveredIs
    <3>2. ver1 = ver0 /\ bal1 = bal0
      BY <2>1, <2>3, <3>1
    <3> QED BY <2>2, <3>2 DEF Committed!ledger
  <2>4. CASE /\ ver[c] = RecoveredVer(c) + 1
             /\ OneTransfer(RecoveredBal(c), bal[c])
    <3>1. PICK s \in Parties, r \in Parties, d \in 0 .. MicroUnits :
            TransferOK(bal0[c], s, r, d) /\ bal[c] = Transfer(bal0[c], s, r, d)
      BY <2>1, <2>4 DEF OneTransfer
    <3>2. ver1 = [ver0 EXCEPT ![c] = @ + 1]
      BY <2>1, <2>4
    <3>3. bal1 = [bal0 EXCEPT ![c] = Transfer(@, s, r, d)]
      BY <2>1, <2>4, <3>1
    <3> HIDE DEF ver0, ver1, bal0, bal1
    <3>4. \E s_1 \in Parties, r_1 \in Parties, d_1 \in 0 .. MicroUnits :
            /\ TransferOK(bal0[c], s_1, r_1, d_1)
            /\ bal1 = [bal0 EXCEPT ![c] = Transfer(@, s_1, r_1, d_1)]
      BY <3>1, <3>3
    <3> USE DEF ver0, ver1, bal0, bal1
    <3>5. Committed!CommitTransfer(c)
      BY <2>2, <3>2, <3>4
         DEF Committed!CommitTransfer, Committed!TransferOK, Committed!Transfer,
             Committed!Parties, Committed!MicroUnits, TransferOK, Transfer,
             Parties, MicroUnits
    <3> QED BY <2>1, <3>5 DEF Committed!LedgerNext
  <2>5. CASE failures # 0 /\ RecoveredVer(c) # ver[c]
    <3>1. failures > 0
      BY <2>5, ManagerAssumption DEF Inv, TypeOK
    <3>2. RecoveredVer(c) < ver[c]
      BY <2>1, <2>5, RecoveredNotAhead
    <3>3. bal[c] \in Allocations /\ Conserved(bal[c])
      BY <2>1 DEF Inv, TypeOK, DataInv, MemoryInv, FundInv
    <3>4. ver1 = [ver0 EXCEPT ![c] = ver1[c]] /\ ver1[c] > ver0[c]
      <4>1. ver1 = [ver0 EXCEPT ![c] = ver1[c]]
        BY <2>1
      <4>2. ver1[c] > ver0[c]
        BY <2>1, <3>2
      <4> QED BY <4>1, <4>2
    <3>5. bal1 = [bal0 EXCEPT ![c] = bal1[c]] /\ bal1[c] = bal[c]
      BY <2>1
    <3>6. Committed!Conserved(bal1[c]) /\ bal1[c] \in Committed!Allocations
      <4> HIDE DEF ver0, ver1, bal0, bal1
      <4>1. Committed!Conserved(bal[c])
        BY <3>3, Zenon
           DEF Committed!Conserved, Committed!MicroUnits, Committed!Total,
               Conserved, MicroUnits, Total
      <4>2. bal[c] \in Committed!Allocations
        BY <3>3, Zenon DEF Committed!Allocations, Committed!Parties, Allocations, Parties
      <4> QED BY <3>5, <4>1, <4>2, Zenon
    <3> HIDE DEF ver0, ver1, bal0, bal1
    <3>7. /\ Committed!OnlyAt(ver0, ver1, c) /\ ver1[c] > ver0[c]
          /\ Committed!OnlyAt(bal0, bal1, c)
      BY <3>4, <3>5 DEF Committed!OnlyAt
    <3> USE DEF ver0, ver1, bal0, bal1
    <3>8. Committed!CatchUp(c)
      BY <2>2, <3>1, <3>6, <3>7, Zenon DEF Committed!CatchUp
    <3> QED BY <2>1, <3>8 DEF Committed!LedgerNext
  <2> QED BY <2>1, <2>3, <2>4, <2>5 DEF CommitInv
<1>2. ASSUME rows' = rows PROVE ver1 = ver0 /\ bal1 = bal0
  BY <1>2, RecoveredFrame
<1>3. ASSUME NEW t \in Threads, Close(t)
      PROVE  [Committed!LedgerNext]_(Committed!ledger)
  <2>0. PICK c \in Channels : c = job[t].ch
    BY DEF Inv, TypeOK
  <2>1. c \in registered /\ rows' = rows /\ failures' = failures
    BY <1>3, <2>0 DEF Inv, TypeOK, ControlInv, CallInv, Close
  <2>2. ver1 = ver0 /\ bal1 = bal0
    BY <1>2, <2>1
  <2>3. sealedAt' = [sealedAt EXCEPT ![c] = ver[c]]
    BY <1>3, <2>0 DEF Close, SettledVersion
  <2>4. CASE RecoveredVer(c) = ver[c]
    <3>1. Committed!Settle(c)
      BY <2>1, <2>2, <2>3, <2>4 DEF Committed!Settle
    <3> QED BY <2>1, <3>1 DEF Committed!LedgerNext
  <2>5. CASE RecoveredVer(c) # ver[c]
    <3>1. failures # 0
      BY <1>3, <2>0, <2>1, <2>5, CritIsIdle, CommittedWhenIdle DEF Close
    <3>2. failures > 0
      BY <3>1, ManagerAssumption DEF Inv, TypeOK
    <3>3. sealedAt'[c] = ver[c] /\ ver[c] > ver0[c]
      <4>1. sealedAt'[c] = ver[c]
        BY <2>3 DEF Inv, TypeOK
      <4> QED BY <2>1, <2>5, <4>1, RecoveredNotAhead
    <3>4. Committed!SettleAhead(c)
      BY <2>1, <2>2, <2>3, <3>2, <3>3
         DEF Committed!SettleAhead, Committed!OnlyAt
    <3> QED BY <2>1, <3>4 DEF Committed!LedgerNext
  <2> QED BY <2>4, <2>5
<1>4. ASSUME NEW t \in Threads, StoreFails(t)
      PROVE  [Committed!LedgerNext]_(Committed!ledger)
  <2>1. rows' = rows /\ sealedAt' = sealedAt /\ failures' > 0
    BY <1>4, ManagerAssumption DEF StoreFails, Inv, TypeOK
  <2>2. ver1 = ver0 /\ bal1 = bal0
    BY <1>2, <2>1
  <2>3. Committed!Degrade
    BY <2>1, <2>2 DEF Committed!Degrade
  <2> QED BY <2>3 DEF Committed!LedgerNext
<1>5. ASSUME rows' = rows, sealedAt' = sealedAt, failures' = failures
      PROVE  [Committed!LedgerNext]_(Committed!ledger)
  BY <1>2, <1>5 DEF Committed!ledger
<1>6. ASSUME \A t \in Threads : ~Close(t) /\ ~StoreFails(t)
      PROVE  sealedAt' = sealedAt /\ failures' = failures
  BY <1>6 DEF Next, vars, Call, Step, AddFresh, AddRecovered, Register,
     BeginTransfer, BeginClose, Acquire, ApplyTransfer, RejectTransfer,
     RejectClose, ReadConfirmed, PutChannelMeta, ReadBalances, ReadVersion,
     PutChannelState, Return, MarkConfirmed, Crash
<1> QED BY <1>1, <1>3, <1>4, <1>5, <1>6, RowsFrame

\* The manager with its threads, locks, buffers, failing commits and crashes
\* implements the ledger of committed states: every step is one accepted
\* transfer, the settlement of exactly the state a restart would recover, or
\* nothing; once a commit has failed, possibly several transfers in one commit
\* or the settlement of a later state, but never a step back.
THEOREM ManagerImplementsLedger ==
  ASSUME ~EarlyUse
  PROVE  Spec => ImplementsLedger
<1>1. Init => Committed!LedgerInit
  BY DEF Init, Committed!LedgerInit, Committed!InitialBalances, InitialBalances,
     Committed!MicroUnits, MicroUnits, Committed!Parties, Parties,
     RecoveredBal, RecoveredVer
<1>2. Init => CommitInv /\ FundInv
  BY InitialConserved DEF Init, CommitInv, FundInv
<1>3. Inv => RecoveredIs
  BY RecoveredHolds
<1>4. Inv /\ Inv' /\ RecoveredIs /\ RecoveredIs' /\ CommitInv /\ [Next]_vars
        => CommitInv'
  BY CommitStep
<1>5. Inv /\ FundInv /\ [Next]_vars => FundInv'
  BY FundStep
<1>6. Inv /\ Inv' /\ RecoveredIs /\ RecoveredIs' /\ CommitInv /\ FundInv
        /\ [Next]_vars => [Committed!LedgerNext]_(Committed!ledger)
  BY LedgerStep
<1>7. Spec => []Inv
  BY Invariance
<1> QED BY <1>1, <1>2, <1>3, <1>4, <1>5, <1>6, <1>7, PTL
        DEF Spec, ImplementsLedger, Committed!LedgerSpec

-----------------------------------------------------------------------------
(***************************************************************************)
(* Transfers after a close: those whose thread had passed the test of      *)
(* closed_channels before the close, each at most once.  Neither locks nor *)
(* ~EarlyUse matter here.                                                  *)
(***************************************************************************)

\* The threads that may still apply a transfer to c without a new test.
Late(c) == {t \in Threads : /\ pc[t] \in {"wait", "crit"}
                            /\ job[t] = [op |-> "transfer", ch |-> c]}

\* Calls are on registered channels, so a closed one is not registered again;
\* what was applied since the close and what may still be applied stay within
\* one transfer for every thread but the closing one.
LateInv ==
    /\ \A t \in Threads : pc[t] # "idle" => job[t].ch \in registered
    /\ closed \subseteq registered
    /\ \A c \in closed :
          ver[c] - sealedAt[c] + Cardinality(Late(c)) <= Cardinality(Threads) - 1

\* A step that puts no thread into Late(c) does not make it larger, and one
\* that takes a thread out makes it smaller.
LEMMA LateShrinks ==
  ASSUME IsFiniteSet(Threads), NEW c \in Channels, Late(c)' \subseteq Late(c)
  PROVE  /\ Cardinality(Late(c)) \in Nat /\ Cardinality(Late(c)') \in Nat
         /\ Cardinality(Late(c)') <= Cardinality(Late(c))
         /\ Late(c)' # Late(c) => Cardinality(Late(c)') <= Cardinality(Late(c)) - 1
<1> DEFINE old == Late(c)
           new == Late(c)'
<1>1. old \in SUBSET Threads
  BY DEF Late
<1>2. IsFiniteSet(old)
  BY <1>1, FS_Subset
<1>3. new \in SUBSET old
  OBVIOUS
<1> HIDE DEF old, new
<1>4. IsFiniteSet(new) /\ Cardinality(new) <= Cardinality(old)
      /\ (Cardinality(old) = Cardinality(new) => old = new)
  BY <1>2, <1>3, FS_Subset
<1>5. Cardinality(old) \in Nat /\ Cardinality(new) \in Nat
  BY <1>2, <1>4, FS_CardinalityType
<1>6. new # old => Cardinality(new) <= Cardinality(old) - 1
  BY <1>4, <1>5
<1> QED BY <1>4, <1>5, <1>6 DEF old, new

\* Begin*: a transfer begins on a channel that is not closed.
LEMMA LateStep ==
  ASSUME IsFiniteSet(Threads), TypeOK, LateInv, [Next]_vars
  PROVE  LateInv'
<1> USE DEF memory, control, store, budget, history
<1> DEFINE Bound(c) == ver[c] - sealedAt[c] + Cardinality(Late(c))
                         <= Cardinality(Threads) - 1
           Calls == \A t \in Threads : pc[t] # "idle" => job[t].ch \in registered
           Goal == LateInv'
<1>1. Cardinality(Threads) \in Nat
  BY FS_CardinalityType
<1>2. \A c \in Channels : ver[c] \in Int /\ sealedAt[c] \in Int
  BY ManagerAssumption DEF TypeOK, Versions
<1>3. ASSUME NEW c \in closed, ver'[c] = ver[c], sealedAt'[c] = sealedAt[c],
             Late(c)' \subseteq Late(c)
      PROVE  Bound(c)'
  <2>1. c \in Channels /\ Bound(c)
    BY DEF TypeOK, LateInv
  <2>2. /\ Cardinality(Late(c)) \in Nat /\ Cardinality(Late(c)') \in Nat
        /\ Cardinality(Late(c)') <= Cardinality(Late(c))
    BY <1>3, <2>1, LateShrinks
  <2> QED BY <1>1, <1>2, <1>3, <2>1, <2>2
\* Steps that move no state: it is enough to see who may enter Late.
<1>4. ASSUME UNCHANGED <<ver, sealedAt>>, closed' = closed, registered' = registered,
             \A u \in Threads : \/ pc'[u] = "idle"
                                \/ pc'[u] \notin {"idle", "wait", "crit"}
                                   /\ pc[u] # "idle" /\ job'[u] = job[u]
                                \/ pc[u] \in {"wait", "crit"} /\ job'[u] = job[u]
                                \/ job'[u].op # "transfer" /\ job'[u].ch \in registered
                                \/ job'[u].ch \notin closed /\ job'[u].ch \in registered
      PROVE  LateInv'
  <2>1. Calls'
    BY <1>4 DEF LateInv
  <2>2. \A c \in closed : Late(c)' \subseteq Late(c)
    BY <1>4 DEF Late
  <2>3. \A c \in closed : Bound(c)'
    BY <1>3, <1>4, <2>2
  <2> QED BY <1>4, <2>1, <2>3 DEF LateInv
<1> HIDE DEF Bound
<1>5. ASSUME NEW t \in Threads, NEW d \in Channels, AddFresh(t, d) \/ AddRecovered(t, d)
      PROVE  LateInv'
  <2>1. PICK b, v, conf : Register(t, d, b, v, conf)
    BY <1>5 DEF AddFresh, AddRecovered
  <2>2. /\ closed' = closed /\ sealedAt' = sealedAt /\ registered' = registered \cup {d}
        /\ d \notin registered
        /\ \A c \in Channels : c # d => ver'[c] = ver[c]
    BY <2>1 DEF Register, TypeOK
  <2>3. /\ pc' = [pc EXCEPT ![t] = "persist"]
        /\ job' = [job EXCEPT ![t] = [op |-> "add", ch |-> d]]
    BY <2>1 DEF Register, Goto
  <2>4. Calls'
    BY <2>2, <2>3 DEF LateInv, TypeOK
  <2>5. \A c \in closed : Late(c)' \subseteq Late(c)
    BY <2>3 DEF Late, TypeOK
  <2>6. \A c \in closed : c \in Channels /\ c # d
    BY <2>2 DEF LateInv, TypeOK
  <2>7. \A c \in closed : Bound(c)'
    BY <1>3, <2>2, <2>5, <2>6
  <2> QED BY <2>2, <2>4, <2>7 DEF LateInv, Bound
<1>6. ASSUME NEW t \in Threads, NEW d \in Channels, BeginTransfer(t, d) \/ BeginClose(t, d)
      PROVE  LateInv'
  BY <1>4, <1>6 DEF BeginTransfer, BeginClose, Usable, PassesClosedCheck, Goto,
     TypeOK, LateInv
<1>7. ASSUME NEW t \in Threads, Acquire(t)
      PROVE  LateInv'
  BY <1>4, <1>7 DEF Acquire, Goto, TypeOK, LateInv
<1>8. ASSUME NEW t \in Threads, ApplyTransfer(t)
      PROVE  LateInv'
  <2>0. PICK d \in Channels : d = job[t].ch
    BY DEF TypeOK
  <2>1. /\ closed' = closed /\ sealedAt' = sealedAt /\ registered' = registered
        /\ ver' = [ver EXCEPT ![d] = @ + 1] /\ job' = job
        /\ pc' = [pc EXCEPT ![t] = "persist"]
        /\ pc[t] = "crit" /\ job[t] = [op |-> "transfer", ch |-> d]
    BY <1>8, <2>0 DEF ApplyTransfer, Goto, TypeOK
  <2>2. Calls'
    BY <2>1 DEF LateInv, TypeOK
  <2>3. \A c \in closed : Late(c)' \subseteq Late(c)
    BY <2>1 DEF Late, TypeOK
  <2>4. t \in Late(d) /\ t \notin Late(d)'
    BY <2>1 DEF Late, TypeOK
  <2>5. ASSUME NEW c \in closed PROVE Bound(c)'
    <3>1. c \in Channels /\ Bound(c)
      BY DEF TypeOK, LateInv, Bound
    <3>2. CASE c = d
      <4>1. ver'[c] = ver[c] + 1
        BY <2>1, <3>1, <3>2 DEF TypeOK
      <4>2. /\ Cardinality(Late(c)) \in Nat /\ Cardinality(Late(c)') \in Nat
            /\ Cardinality(Late(c)') <= Cardinality(Late(c)) - 1
        <5>1. Late(c)' # Late(c) /\ Late(c)' \subseteq Late(c)
          BY <2>3, <2>4, <3>2
        <5> QED BY <3>1, <5>1, LateShrinks
      <4> QED BY <1>1, <1>2, <2>1, <3>1, <4>1, <4>2 DEF Bound
    <3>3. CASE c # d
      BY <1>3, <2>1, <2>3, <3>1, <3>3 DEF TypeOK
    <3> QED BY <3>2, <3>3
  <2> QED BY <2>1, <2>2, <2>5 DEF LateInv, Bound
<1>9. ASSUME NEW t \in Threads, Close(t)
      PROVE  LateInv'
  <2>0. PICK d \in Channels : d = job[t].ch
    BY DEF TypeOK
  <2>1. /\ closed' = closed \cup {d} /\ sealedAt' = [sealedAt EXCEPT ![d] = ver[d]]
        /\ registered' = registered /\ ver' = ver /\ job' = job
        /\ pc' = [pc EXCEPT ![t] = "persist"]
        /\ pc[t] = "crit" /\ job[t].op = "close" /\ d \notin closed /\ d \in registered
    BY <1>9, <2>0 DEF Close, Goto, SettledVersion, LateInv
  <2>2. Calls' /\ closed' \subseteq registered'
    BY <2>1 DEF LateInv, TypeOK
  <2>3. \A c \in closed : Late(c)' \subseteq Late(c)
    BY <2>1 DEF Late, TypeOK
  <2>4. Bound(d)'
    <3>1. Late(d)' \in SUBSET (Threads \ {t})
      BY <2>1 DEF Late, TypeOK
    <3>2. /\ IsFiniteSet(Threads \ {t})
          /\ Cardinality(Threads \ {t}) = Cardinality(Threads) - 1
      BY FS_RemoveElement
    <3>3. Cardinality(Late(d)') <= Cardinality(Threads) - 1
          /\ Cardinality(Late(d)') \in Nat
      <4> DEFINE T == Threads \ {t}
                 L == Late(d)'
      <4>1. L \in SUBSET T
        BY <3>1
      <4> HIDE DEF L, T
      <4>2. IsFiniteSet(L) /\ Cardinality(L) <= Cardinality(T)
        BY <3>2, <4>1, FS_Subset DEF T
      <4>3. Cardinality(L) \in Nat
        BY <4>2, FS_CardinalityType
      <4> QED BY <3>2, <4>2, <4>3 DEF L, T
    <3>4. ver'[d] = sealedAt'[d] /\ ver'[d] \in Int
      BY <1>2, <2>1 DEF TypeOK
    <3> QED BY <1>1, <3>3, <3>4 DEF Bound
  <2>5. \A c \in closed : Bound(c)'
    <3>1. \A c \in closed : ver'[c] = ver[c] /\ sealedAt'[c] = sealedAt[c]
      BY <2>1 DEF TypeOK
    <3> QED BY <1>3, <2>3, <3>1
  <2> QED BY <2>1, <2>2, <2>4, <2>5 DEF LateInv, Bound
<1>10. ASSUME NEW t \in Threads,
              RejectTransfer(t) \/ RejectClose(t) \/ Return(t) \/ StoreFails(t)
       PROVE  LateInv'
  BY <1>4, <1>10 DEF RejectTransfer, RejectClose, Return, StoreFails, EndCall, Goto,
     TypeOK, LateInv
<1>11. ASSUME NEW t \in Threads,
              \/ ReadConfirmed(t) \/ PutChannelMeta(t) \/ ReadBalances(t)
              \/ ReadVersion(t) \/ PutChannelState(t)
       PROVE  LateInv'
  BY <1>4, <1>11 DEF ReadConfirmed, PutChannelMeta, ReadBalances, ReadVersion,
     PutChannelState, Goto, TypeOK, LateInv
<1>12. ASSUME NEW d \in Channels, MarkConfirmed(d)
       PROVE  LateInv'
  BY <1>12 DEF MarkConfirmed, LateInv, Late
<1>13. CASE Crash
  BY <1>13 DEF Crash, LateInv
<1>14. CASE UNCHANGED vars
  BY <1>14 DEF vars, LateInv, Late
<1> QED BY <1>5, <1>6, <1>7, <1>8, <1>9, <1>10, <1>11, <1>12, <1>13, <1>14
        DEF Next, Call, Step

\* After a close every other thread applies at most the one transfer that had
\* already passed the test of closed_channels (apply_transfer), whether or not
\* clients wait for add(), and whatever fails.
THEOREM LateTransfersStayBounded ==
  ASSUME IsFiniteSet(Threads)
  PROVE  Spec => []LateTransfersBounded
<1>1. Init => LateInv
  BY DEF Init, LateInv
<1>2. TypeOK /\ LateInv /\ [Next]_vars => LateInv'
  BY LateStep
<1>3. ASSUME TypeOK, LateInv PROVE LateTransfersBounded
  <2> SUFFICES ASSUME NEW c \in closed
               PROVE  ver[c] - sealedAt[c] <= Cardinality(Threads) - 1
    BY DEF LateTransfersBounded
  <2>1. c \in Channels /\ ver[c] \in Int /\ sealedAt[c] \in Int
    BY <1>3, ManagerAssumption DEF TypeOK, Versions
  <2>2. Late(c) \in SUBSET Threads
    BY DEF Late
  <2>3. Cardinality(Late(c)) \in Nat /\ Cardinality(Threads) \in Nat
    BY <2>2, FS_Subset, FS_CardinalityType
  <2>4. ver[c] - sealedAt[c] + Cardinality(Late(c)) <= Cardinality(Threads) - 1
    BY <1>3 DEF LateInv
  <2> QED BY <2>1, <2>3, <2>4
<1> QED BY <1>1, <1>2, <1>3, TypeCorrect, PTL DEF Spec
=============================================================================
