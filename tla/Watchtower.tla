------------------------------ MODULE Watchtower ------------------------------
(***************************************************************************)
(* Watchtowers on the embedded node: watchtower/tower.py, registry.py,     *)
(* cluster.py (several towers, each with its own registry) and monitor.py. *)
(*                                                                         *)
(* A tower is a mempool observer.  Mempool._notify calls the observers     *)
(* synchronously, in list order, from inside admit; a tower that sees a    *)
(* stale state submits its own from inside that call, which notifies all   *)
(* observers again.  The variable calls is the stack of these nested loops:*)
(* one frame per running _notify, with the observers it has yet to call.   *)
(***************************************************************************)
EXTENDS Node

CONSTANTS Towers,
          Chans,         \* funding outpoints (vout 0) of the channels
          States,        \* co-signed state transactions
          ForfeitOf      \* tower -> its pre-signed forfeiture

ASSUME TowerAssumption ==
    /\ Chans \subseteq Outpoints
    /\ States \subseteq Accepted
    /\ \A tx \in States : \E o \in Chans : Spends[tx] = {o}
    /\ \A tx \in Txs : \A o1, o2 \in Spends[tx] \cap Chans : o1 = o2
    /\ ForfeitOf \in [Towers -> Txs]
    /\ IsFiniteSet(Towers)

VARIABLES attached,   \* Mempool.observers: the towers online, in list order
          record,     \* each tower's registry: channel -> current state tx
          calls,      \* running _notify loops, innermost first
          pledge      \* history: highest state an online tower held when the
                      \* pool transaction on that channel was broadcast

towerVars == <<attached, record, calls, pledge>>
watchVars == <<nodeVars, towerVars>>

WatchInit ==
    /\ NodeInit
    /\ attached \in SetToSeqs(Towers)
    /\ record = [t \in Towers |-> [o \in Chans |-> NoTx]]
    /\ calls = <<>>
    /\ pledge = [o \in Chans |-> 0]

-----------------------------------------------------------------------------
\* The sequence number of the state a tower holds for a channel; 0 for none,
\* which no transaction is below.
Held(t, o) == IF record[t][o] = NoTx THEN 0 ELSE InputSeq[record[t][o]][o]

HighestHeld(o) ==
    CHOOSE n \in {0} \cup {Held(t, o) : t \in ToSet(attached)} :
        \A t \in ToSet(attached) : Held(t, o) <= n

\* _observe: tx spends a watched funding output with a lower sequence than the
\* current state of the tower's record.
StaleOffByOne(t, tx, o) ==
    o \in Spends[tx] /\ record[t][o] # NoTx /\ InputSeq[tx][o] + 1 < Held(t, o)
Stale(t, tx, o) ==
    o \in Spends[tx] /\ record[t][o] # NoTx /\ InputSeq[tx][o] < Held(t, o)

\* registry.register and update overwrite the record, without comparing versions.
Register(t, tx) ==
    /\ calls = <<>>
    /\ \E o \in Chans : o \in Spends[tx] /\ record' = [record EXCEPT ![t][o] = tx]
    /\ UNCHANGED <<nodeVars, attached, calls, pledge>>

\* WatchCluster.register_channel: the same state at every tower, in turn.
RegisterChannel(tx) ==
    /\ calls = <<>>
    /\ \E o \in Chans : /\ o \in Spends[tx]
                        /\ record' = [t \in Towers |-> [record[t] EXCEPT ![o] = tx]]
    /\ UNCHANGED <<nodeVars, attached, calls, pledge>>

\* A call of submit_tx from outside: on admission the observers are called.
Broadcast(tx) ==
    /\ calls = <<>>
    /\ SubmitTx(tx)
    /\ calls' = <<[tx |-> tx, todo |-> attached]>>
    /\ pledge' = [o \in Chans |-> IF o \in Spends[tx] THEN HighestHeld(o) ELSE pledge[o]]
    /\ UNCHANGED <<attached, record>>

\* The frame on top calls its next observer t: nothing to do, or submit_tx of
\* the current state, which the pool may reject, know already, or admit.
Observe ==
    /\ calls # <<>>
    /\ calls[1].todo # <<>>
    /\ LET f    == calls[1]
           t    == Head(f.todo)
           rest == <<[f EXCEPT !.todo = Tail(@)]>> \o Tail(calls)
           resp == {record[t][o] : o \in {c \in Chans : Stale(t, f.tx, c)}}
       IN  IF \E cur \in resp : Admissible(cur)
           THEN \E cur \in resp :
                  /\ Admit(cur)
                  /\ calls' = <<[tx |-> cur, todo |-> attached]>> \o rest
                  /\ UNCHANGED <<headerVars, undo, minerVars, fed>>
           ELSE calls' = rest /\ UNCHANGED nodeVars
    /\ UNCHANGED <<attached, record, pledge>>

\* A _notify loop ends.
EndNotify ==
    /\ calls # <<>>
    /\ calls[1].todo = <<>>
    /\ calls' = Tail(calls)
    /\ UNCHANGED <<nodeVars, attached, record, pledge>>

\* forfeit_offender_bond: submits the pre-signed forfeiture, whenever called.
Forfeit(t) ==
    /\ \E o \in Chans : record[t][o] # NoTx
    /\ Broadcast(ForfeitOf[t])

\* WatchCluster.disable and enable.
Disable(t) ==
    /\ calls = <<>> /\ t \in ToSet(attached)
    /\ attached' = RemoveFirst(attached, t)
    /\ UNCHANGED <<nodeVars, record, calls, pledge>>

Enable(t) ==
    /\ calls = <<>> /\ t \notin ToSet(attached)
    /\ attached' = Append(attached, t)
    /\ UNCHANGED <<nodeVars, record, calls, pledge>>

\* generate_block and accept_block: they only evict, which towers ignore.
Mine ==
    /\ calls = <<>>
    /\ \/ \E m \in Miners : Generate(m)
       \/ \E p \in 0 .. count, w \in Works : \E txs \in PeerBodies(p) :
            AcceptBlock(p, w, txs)
    /\ UNCHANGED towerVars

WatchNext ==
    \/ \E t \in Towers, tx \in States : Register(t, tx)
    \/ \E tx \in States : RegisterChannel(tx)
    \/ \E tx \in Txs \ {ForfeitOf[t] : t \in Towers} : Broadcast(tx)
    \/ Observe \/ EndNotify
    \/ \E t \in Towers : Forfeit(t) \/ Disable(t) \/ Enable(t)
    \/ Mine

WatchSpec == WatchInit /\ [][WatchNext]_watchVars

-----------------------------------------------------------------------------
\* When the outermost admit has returned, the pool holds for every channel a
\* state at least as new as the newest one an online tower held when the
\* contested transaction came in: one online watcher of k suffices, and
\* watchers with different records converge on the newest.
StaleOvertaken ==
    calls = <<>> => \A o \in Chans :
        spentBy[o] # NoTx => InputSeq[spentBy[o]][o] >= pledge[o]

\* No block the node mines carries a state an online tower should have overtaken.
StaleNeverMined ==
    [][\A o \in Chans, tx \in Txs :
        (count' # count /\ fed' = fed /\ tx \in ToSet(body'[count']) /\ o \in Spends[tx])
            => InputSeq[tx][o] >= pledge[o]]_watchVars
=============================================================================
