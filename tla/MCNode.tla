--------------------------------- MODULE MCNode ---------------------------------
(***************************************************************************)
(* The node with the transactions of one channel: two versions of its      *)
(* state, the cooperative close, the forfeiture of the bond, a payment of  *)
(* what the second state pays out, and a transaction the interpreter       *)
(* rejects; or, for longer behaviours, the second state and its payment.   *)
(***************************************************************************)
EXTENDS Node, TLC

CONSTANTS chan, bond, out0, out1, outC, outF, outP,
          state0, state1, close, forfeit, payment, forged, m1, m2

Final == 9   \* FINAL_SEQUENCE: above every state version

MCTxs == {state0, state1, close, forfeit, payment, forged}
MCOutpoints == {chan, bond, out0, out1, outC, outF, outP} \cup 1 .. MaxBlocks
MCCoins == {chan, bond}
MCSpends == state0 :> {chan} @@ state1 :> {chan} @@ close :> {chan, bond}
            @@ forfeit :> {bond} @@ payment :> {out1} @@ forged :> {chan}
MCCreates == state0 :> {out0} @@ state1 :> {out1} @@ close :> {outC}
             @@ forfeit :> {outF} @@ payment :> {outP} @@ forged :> {}
MCInputSeq == state0 :> (chan :> 0) @@ state1 :> (chan :> 1)
           @@ close :> (chan :> Final @@ bond :> Final)
           @@ forfeit :> (bond :> Final) @@ payment :> (out1 :> Final)
           @@ forged :> (chan :> 5)
MCAccepted == MCTxs \ {forged}

PaymentTxs == {state1, payment}
PaymentSpends == Restrict(MCSpends, PaymentTxs)
PaymentCreates == Restrict(MCCreates, PaymentTxs)
PaymentInputSeq == Restrict(MCInputSeq, PaymentTxs)

\* What the theorems about blocks assume of the transactions holds here.
ASSUME MCOutputs == DistinctOutputs /\ HaveInputs
=============================================================================
