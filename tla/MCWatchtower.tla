----------------------------- MODULE MCWatchtower -----------------------------
(***************************************************************************)
(* Two watchers on one channel: three versions of its state, the           *)
(* cooperative close, and one pre-signed forfeiture for each watcher.      *)
(***************************************************************************)
EXTENDS Watchtower, TLC

CONSTANTS chan, bond, state0, state1, state2, close, forfeitA, forfeitB,
          towerA, towerB, m1

Final == 9   \* FINAL_SEQUENCE: above every state version

MCStates == {state0, state1, state2}
MCTxs == MCStates \cup {close, forfeitA, forfeitB}
MCCoins == {chan, bond}
MCOutpoints == MCCoins \cup 1 .. MaxBlocks
MCSpends == state0 :> {chan} @@ state1 :> {chan} @@ state2 :> {chan}
            @@ close :> {chan, bond} @@ forfeitA :> {bond} @@ forfeitB :> {bond}
MCCreates == [tx \in MCTxs |-> {}]
MCInputSeq == state0 :> (chan :> 0) @@ state1 :> (chan :> 1) @@ state2 :> (chan :> 2)
              @@ close :> (chan :> Final @@ bond :> Final)
              @@ forfeitA :> (bond :> Final) @@ forfeitB :> (bond :> Final)
MCForfeitOf == towerA :> forfeitA @@ towerB :> forfeitB
=============================================================================
