----------------------------- MODULE ChannelProofs -----------------------------
(***************************************************************************)
(* What the signed transactions of a channel and its successors pay, and   *)
(* how they rank, for every number of parties, every K, S, bonds and fees  *)
(* and however many states, signatures and refreshes; that a payment       *)
(* routed over several channels is atomic; and what is found in the two    *)
(* files that are rewritten in place, a channel's, by processes that may   *)
(* overlap and be killed, and the registry's, by a tower that may be       *)
(* killed.                                                                 *)
(***************************************************************************)
EXTENDS Channel, Routing, Snapshot, RegistryFile, AccountingProofs, SequenceTheorems

Balanced == {b \in Allocations : Conserved(b)}
Held == [fund : {0}, bal : Balanced, ver : Nat, conf : BOOLEAN]

\* Every channel object holds a conserved state of some version.
ChansInv == chans \in Seq(Held)

\* The history: every channel's current state is in it under the current
\* version, older ones are below it, and a version names one state.
PastInv ==
    /\ past \subseteq (1 .. Len(chans)) \X Nat \X Balanced
    /\ \A i \in 1 .. Len(chans) : <<i, chans[i].ver, chans[i].bal>> \in past
    /\ \A p \in past : p[2] <= chans[p[1]].ver
    /\ \A p, q \in past : (p[1] = q[1] /\ p[2] = q[2]) => p[3] = q[3]

\* A state transaction carries the version and the payouts of the state it was
\* built from, below the final sequence; a close is final; each pays what it
\* spends.
Settles(tx) ==
    /\ Total(tx.pays) + tx.fee = tx.spends
    /\ tx.kind = "state" =>
         /\ tx.seq \in Nat /\ tx.seq < FinalSequence
         /\ tx.seq = tx.of[2] /\ tx.pays = Quantise(tx.of[3])
    /\ tx.kind = "close" => tx.seq = FinalSequence
SignedInv == \A tx \in signed : Settles(tx)

Inv == ChansInv /\ PastInv /\ SignedInv

-----------------------------------------------------------------------------
\* forfeit_bond_tx: the shares and the remainder for the last honest party add
\* up to what is left of the bond, and the offender gets nothing.
LEMMA ForfeitTotal ==
  ASSUME NEW off \in Parties, NEW rest \in Nat
  PROVE  Total(ForfeitPays(off, rest)) = rest
<1> DEFINE share == rest \div (N - 1)
           left == rest - share * (N - 1)
           H == Parties \ {off}
           base == [p \in Parties |-> share * Indicator(H)[p]]
           last == Unit(LastHonest(off), left)
<1>1. N - 1 \in Nat /\ N - 1 > 0 /\ share \in Nat
  BY ConfigAssumption
<1> HIDE DEF share
<1>2. share * (N - 1) \in Int /\ left \in Int
  BY <1>1
<1>3. LastHonest(off) \in H
  BY ConfigAssumption DEF LastHonest, Parties
<1>4. last \in Vectors /\ Total(last) = left
  BY <1>2, <1>3, TotalUnit
<1>5. Cardinality(H) = N - 1
  BY PartiesFinite, FS_RemoveElement
<1>6. Indicator(H) \in Vectors /\ Total(Indicator(H)) = N - 1
  BY <1>5, TotalIndicator DEF Indicator, Vectors
<1>7. base \in Vectors
  BY <1>1, <1>6 DEF Vectors
<1>8. Total(base) = share * (N - 1)
  <2> HIDE DEF H
  <2> QED BY <1>1, <1>6, <1>7, TotalScale
<1>9. /\ ForfeitPays(off, rest) \in Vectors
      /\ \A p \in Parties : ForfeitPays(off, rest)[p] = base[p] + last[p]
  <2>1. \A p \in Parties :
          ForfeitPays(off, rest)[p] = IF p = off THEN 0
                                      ELSE IF p = LastHonest(off) THEN share + left
                                      ELSE share
    BY DEF ForfeitPays, share
  <2>2. \A p \in Parties : /\ base[p] = IF p = off THEN 0 ELSE share
                           /\ last[p] = IF p = LastHonest(off) THEN left ELSE 0
    BY <1>1 DEF Indicator, Unit
  <2>3. ForfeitPays(off, rest) = [p \in Parties |-> ForfeitPays(off, rest)[p]]
    BY DEF ForfeitPays
  <2> HIDE DEF base, last, left
  <2>4. \A p \in Parties : /\ ForfeitPays(off, rest)[p] \in Int
                           /\ ForfeitPays(off, rest)[p] = base[p] + last[p]
    BY <1>1, <1>2, <1>3, <2>1, <2>2
  <2> QED BY <2>3, <2>4 DEF Vectors
<1>10. Total(ForfeitPays(off, rest)) = Total(base) + Total(last)
  <2> HIDE DEF base, last
  <2> QED BY <1>4, <1>7, <1>9, TotalAdd
<1> QED BY <1>2, <1>4, <1>8, <1>10

\* build_close_tx pays the quantised balances and every bond.
LEMMA CloseTotal ==
  ASSUME NEW b \in Balanced
  PROVE  Total(ClosePays(b)) = S + Total(Bonds)
<1>1. Quantise(b) \in [Parties -> Nat] /\ Total(Quantise(b)) = S
  BY QuantiseTotal DEF Balanced
<1>2. Bonds \in [Parties -> Nat]
  BY ChannelAssumption
<1>3. Quantise(b) \in Vectors /\ Bonds \in Vectors /\ ClosePays(b) \in Vectors
  BY <1>1, <1>2 DEF Vectors, ClosePays
<1>4. \A p \in Parties : ClosePays(b)[p] = Quantise(b)[p] + Bonds[p]
  BY DEF ClosePays
<1> QED BY <1>1, <1>3, <1>4, TotalAdd

\* conservation_check: what a caller may pass conserves the channel.
LEMMA PassedBalanced == Passed \subseteq Balanced
<1>1. 0 .. MicroUnits \subseteq Nat
  BY ConfigAssumption DEF MicroUnits
<1>2. [Parties -> 0 .. MicroUnits] \subseteq Allocations
  BY <1>1 DEF Allocations
<1> QED BY <1>2 DEF Passed, Balanced

-----------------------------------------------------------------------------
LEMMA InvInit == Init => Inv
<1> SUFFICES ASSUME Init PROVE Inv
  OBVIOUS
<1>1. InitialBalances \in Balanced
  BY InitialConserved DEF Balanced
<1> DEFINE c == [fund |-> 0, bal |-> InitialBalances, ver |-> 0, conf |-> FALSE]
<1>2. c \in Held
  BY <1>1 DEF Held
<1>3. chans = <<c>> /\ past = { <<1, 0, InitialBalances>> } /\ signed = {}
  BY DEF Init
<1>4. chans \in Seq(Held) /\ Len(chans) = 1 /\ chans[1] = c
  BY <1>2, <1>3
<1> QED BY <1>1, <1>3, <1>4 DEF Inv, ChansInv, PastInv, SignedInv

\* Channel.state becomes a conserved state of a higher version.
LEMMA AssignStep ==
  ASSUME Inv, NEW i \in 1 .. Len(chans), NEW b \in Balanced, NEW v \in Nat,
         v > chans[i].ver, Assign(i, b, v)
  PROVE  Inv'
<1> DEFINE e == [chans[i] EXCEPT !.bal = b, !.ver = v]
<1>1. chans \in Seq(Held) /\ chans[i] \in Held
  BY ElementOfSeq DEF Inv, ChansInv
<1>2. e \in Held /\ e.bal = b /\ e.ver = v
  BY <1>1 DEF Held
<1>3. chans' = [chans EXCEPT ![i] = e]
  BY DEF Assign
<1> HIDE DEF e
<1>4. /\ chans' \in Seq(Held) /\ Len(chans') = Len(chans)
      /\ \A j \in 1 .. Len(chans) : chans'[j] = IF j = i THEN e ELSE chans[j]
  BY <1>1, <1>2, <1>3, ExceptSeq
<1>5. past' = past \cup { <<i, v, b>> } /\ signed' = signed
  BY DEF Assign
<1>6. \A p \in past : /\ p[1] \in 1 .. Len(chans) /\ p[2] \in Nat /\ p[2] <= chans[p[1]].ver
                      /\ p[1] = i => p[2] < v
  <2>1. chans[i].ver \in Nat
    BY <1>1 DEF Held
  <2> QED BY <2>1 DEF Inv, PastInv
<1>7. PastInv'
  <2>1. past' \subseteq (1 .. Len(chans')) \X Nat \X Balanced
    BY <1>4, <1>5 DEF Inv, PastInv
  <2>2. \A j \in 1 .. Len(chans') : <<j, chans'[j].ver, chans'[j].bal>> \in past'
    BY <1>2, <1>4, <1>5 DEF Inv, PastInv
  <2>3. \A p \in past' : p[2] <= chans'[p[1]].ver
    <3> SUFFICES ASSUME NEW p \in past' PROVE p[2] <= chans'[p[1]].ver
      OBVIOUS
    <3>1. CASE p \in past
      BY <1>2, <1>4, <1>6, <3>1
    <3>2. CASE p = <<i, v, b>>
      BY <1>2, <1>4, <3>2
    <3> QED BY <1>5, <3>1, <3>2
  <2>4. \A p, q \in past' : (p[1] = q[1] /\ p[2] = q[2]) => p[3] = q[3]
    BY <1>5, <1>6 DEF Inv, PastInv
  <2> QED BY <2>1, <2>2, <2>3, <2>4 DEF PastInv
<1>8. SignedInv'
  BY <1>5 DEF Inv, SignedInv
<1> QED BY <1>4, <1>7, <1>8 DEF Inv, ChansInv

LEMMA SignStep ==
  ASSUME Inv, NEW i, NEW tx, Settles(tx), Sign(i, tx)
  PROVE  Inv'
<1>1. chans' = chans /\ past' = past /\ signed' = signed \cup {tx}
  BY DEF Sign
<1> QED BY <1>1 DEF Inv, ChansInv, PastInv, SignedInv

\* apply_transfer and apply_sequence.
LEMMA TransferStep ==
  ASSUME Inv, NEW i \in 1 .. Len(chans), ApplyTransfer(i) \/ ApplySequence(i)
  PROVE  Inv'
<1>1. chans[i].bal \in Balanced /\ chans[i].ver \in Nat
  <2>1. chans[i] \in Held
    BY ElementOfSeq DEF Inv, ChansInv
  <2> QED BY <2>1 DEF Held
<1>2. ASSUME NEW b \in Balanced, NEW s \in Parties, NEW r \in Parties,
             NEW d \in 0 .. MicroUnits, TransferOK(b, s, r, d)
      PROVE  Transfer(b, s, r, d) \in Balanced
  <2>1. d \in Nat
    BY ConfigAssumption DEF MicroUnits
  <2> QED BY <1>2, <2>1, TransferConserves DEF Balanced, Conserved
<1>3. CASE ApplyTransfer(i)
  <2>1. PICK s \in Parties, r \in Parties, d \in 0 .. MicroUnits :
          /\ TransferOK(chans[i].bal, s, r, d)
          /\ Assign(i, Transfer(chans[i].bal, s, r, d), chans[i].ver + 1)
    BY <1>3 DEF ApplyTransfer
  <2>2. Transfer(chans[i].bal, s, r, d) \in Balanced
    BY <1>1, <1>2, <2>1
  <2>3. chans[i].ver + 1 \in Nat /\ chans[i].ver + 1 > chans[i].ver
    BY <1>1
  <2> QED BY <2>1, <2>2, <2>3, AssignStep
<1>4. CASE ApplySequence(i)
  <2>1. PICK s1 \in Parties, r1 \in Parties, s2 \in Parties, r2 \in Parties,
             d1 \in 1 .. MicroUnits, d2 \in 1 .. MicroUnits :
          LET b == Transfer(chans[i].bal, s1, r1, d1) IN
          /\ TransferOK(chans[i].bal, s1, r1, d1)
          /\ TransferOK(b, s2, r2, d2)
          /\ Assign(i, Transfer(b, s2, r2, d2), chans[i].ver + 2)
    BY <1>4 DEF ApplySequence
  <2> DEFINE b == Transfer(chans[i].bal, s1, r1, d1)
  <2>2. d1 \in 0 .. MicroUnits /\ d2 \in 0 .. MicroUnits
    BY ConfigAssumption DEF MicroUnits
  <2>3. b \in Balanced
    BY <1>1, <1>2, <2>1, <2>2
  <2>4. Transfer(b, s2, r2, d2) \in Balanced
    <3> HIDE DEF b
    <3>1. TransferOK(b, s2, r2, d2)
      BY <2>1 DEF b
    <3> QED BY <1>2, <2>2, <2>3, <3>1
  <2>5. chans[i].ver + 2 \in Nat /\ chans[i].ver + 2 > chans[i].ver
    BY <1>1
  <2> QED BY <2>1, <2>4, <2>5, AssignStep
<1> QED BY <1>3, <1>4

\* sign_state_tx and superseded_state_tx_for.
LEMMA StateTxStep ==
  ASSUME Inv, NEW i \in 1 .. Len(chans), SignState(i) \/ SupersededStateTxFor(i)
  PROVE  Inv'
<1>1. PICK b \in Passed, v \in Versions : SequenceOK(v) /\ Sign(i, StateTx(i, v, b))
  BY DEF SignState, SupersededStateTxFor
<1> DEFINE tx == StateTx(i, v, b)
<1>2. v \in Nat /\ v < FinalSequence /\ b \in Balanced
  BY <1>1, PassedBalanced, ChannelAssumption DEF Versions, SequenceOK
<1>3. Total(Quantise(b)) = S
  BY <1>2, QuantiseTotal DEF Balanced
<1>4. /\ tx.kind = "state" /\ tx.seq = v /\ tx.spends = S /\ tx.of = <<i, v, b>>
      /\ tx.pays = Quantise(b) /\ tx.fee = 0
  BY DEF StateTx
<1> HIDE DEF tx
<1>5. Total(tx.pays) + tx.fee = tx.spends
  BY <1>3, <1>4, ConfigAssumption
<1>6. Settles(tx)
  BY <1>2, <1>4, <1>5 DEF Settles
<1> QED BY <1>1, <1>6, SignStep DEF tx

\* cooperative_close.
LEMMA CloseStep ==
  ASSUME Inv, NEW i \in 1 .. Len(chans), CooperativeClose(i)
  PROVE  Inv'
<1>1. PICK b \in Passed :
        Sign(i, [kind |-> "close", fund |-> chans[i].fund, seq |-> FinalSequence,
                 spends |-> S + Total(Bonds), pays |-> ClosePays(b), fee |-> 0])
  BY DEF CooperativeClose
<1> DEFINE tx == [kind |-> "close", fund |-> chans[i].fund, seq |-> FinalSequence,
                  spends |-> S + Total(Bonds), pays |-> ClosePays(b), fee |-> 0]
<1>2. b \in Balanced
  BY PassedBalanced
<1>3. Total(tx.pays) = S + Total(Bonds)
  BY <1>2, CloseTotal
<1>4. S + Total(Bonds) \in Int
  <2>1. Bonds \in Vectors
    BY ChannelAssumption DEF Vectors
  <2> QED BY <2>1, TotalType, ConfigAssumption
<1>5. Settles(tx)
  BY <1>3, <1>4 DEF Settles
<1> QED BY <1>1, <1>5, SignStep

\* forfeit_bond_tx.
LEMMA ForfeitStep ==
  ASSUME Inv, NEW i \in 1 .. Len(chans), ForfeitBond(i)
  PROVE  Inv'
<1>1. PICK off \in Parties, fee \in Fees, byTower \in BOOLEAN :
        LET paid == IF byTower THEN fee ELSE 0 IN
        /\ fee <= Bonds[off]
        /\ Sign(i, [kind |-> "forfeit", fund |-> chans[i].fund, seq |-> FinalSequence,
                    spends |-> Bonds[off], pays |-> ForfeitPays(off, Bonds[off] - paid),
                    fee |-> paid])
  BY DEF ForfeitBond
<1> DEFINE paid == IF byTower THEN fee ELSE 0
           tx == [kind |-> "forfeit", fund |-> chans[i].fund, seq |-> FinalSequence,
                  spends |-> Bonds[off], pays |-> ForfeitPays(off, Bonds[off] - paid),
                  fee |-> paid]
<1>2. Bonds[off] \in Nat /\ paid \in Nat /\ Bonds[off] - paid \in Nat
  BY <1>1, ChannelAssumption
<1>3. Sign(i, tx)
  BY <1>1
<1> HIDE DEF paid
<1>4. Total(tx.pays) = Bonds[off] - paid
  BY <1>2, ForfeitTotal
<1>5. Settles(tx)
  BY <1>2, <1>4 DEF Settles
<1> QED BY <1>3, <1>5, SignStep

LEMMA MarkStep ==
  ASSUME Inv, NEW i \in 1 .. Len(chans), MarkConfirmed(i)
  PROVE  Inv'
<1> DEFINE e == [chans[i] EXCEPT !.conf = TRUE]
<1>1. chans \in Seq(Held) /\ chans[i] \in Held
  BY ElementOfSeq DEF Inv, ChansInv
<1>2. e \in Held /\ e.bal = chans[i].bal /\ e.ver = chans[i].ver
  BY <1>1 DEF Held
<1>3. chans' = [chans EXCEPT ![i] = e] /\ past' = past /\ signed' = signed
  BY DEF MarkConfirmed
<1> HIDE DEF e
<1>4. /\ chans' \in Seq(Held) /\ Len(chans') = Len(chans)
      /\ \A j \in 1 .. Len(chans) : chans'[j] = IF j = i THEN e ELSE chans[j]
  BY <1>1, <1>2, <1>3, ExceptSeq
<1>5. \A j \in 1 .. Len(chans) : chans'[j].bal = chans[j].bal /\ chans'[j].ver = chans[j].ver
  BY <1>2, <1>4
<1>6. \A p \in past : p[1] \in 1 .. Len(chans)
  BY DEF Inv, PastInv
<1> QED BY <1>3, <1>4, <1>5, <1>6 DEF Inv, ChansInv, PastInv, SignedInv

\* refresh_channel.
LEMMA RefreshStep ==
  ASSUME Inv, NEW i \in 1 .. Len(chans), Refresh(i)
  PROVE  Inv'
<1> DEFINE e == [fund |-> SuccessorFund(i), bal |-> chans[i].bal, ver |-> 0, conf |-> TRUE]
           n == Len(chans) + 1
<1>1. chans \in Seq(Held) /\ chans[i] \in Held /\ Len(chans) \in Nat
  BY ElementOfSeq, LenProperties DEF Inv, ChansInv
<1>2. e \in Held /\ e.bal = chans[i].bal /\ e.ver = 0
  BY <1>1 DEF Held, SuccessorFund
<1>3. /\ chans' = Append(chans, e) /\ signed' = signed
      /\ past' = past \cup { <<n, 0, chans[i].bal>> }
  BY DEF Refresh
<1> HIDE DEF e
<1>4. /\ chans' \in Seq(Held) /\ Len(chans') = n /\ n \in Nat
      /\ \A j \in 1 .. Len(chans) : chans'[j] = chans[j]
      /\ chans'[n] = e
  BY <1>1, <1>2, <1>3, AppendProperties
<1>5. \A p \in past : p[1] \in 1 .. Len(chans) /\ p[1] # n
  BY <1>1 DEF Inv, PastInv
<1>6. 1 .. n = (1 .. Len(chans)) \cup {n}
  BY <1>1
<1>7. chans[i].bal \in Balanced
  BY <1>1 DEF Held
<1> HIDE DEF n
<1>8. PastInv'
  <2>1. past' \subseteq (1 .. Len(chans')) \X Nat \X Balanced
    BY <1>3, <1>4, <1>6, <1>7 DEF Inv, PastInv
  <2>2. \A j \in 1 .. Len(chans') : <<j, chans'[j].ver, chans'[j].bal>> \in past'
    BY <1>2, <1>3, <1>4, <1>6 DEF Inv, PastInv
  <2>3. \A p \in past' : p[2] <= chans'[p[1]].ver
    BY <1>2, <1>3, <1>4, <1>5 DEF Inv, PastInv
  <2>4. \A p, q \in past' : (p[1] = q[1] /\ p[2] = q[2]) => p[3] = q[3]
    BY <1>3, <1>5 DEF Inv, PastInv
  <2> QED BY <2>1, <2>2, <2>3, <2>4 DEF PastInv
<1>9. SignedInv'
  BY <1>3 DEF Inv, SignedInv
<1> QED BY <1>4, <1>8, <1>9 DEF Inv, ChansInv

LEMMA Invariance == Spec => []Inv
<1>1. Inv /\ [Next]_vars => Inv'
  <2> SUFFICES ASSUME Inv, [Next]_vars PROVE Inv'
    OBVIOUS
  <2>1. CASE Next
    <3>1. PICK i \in 1 .. Len(chans) :
            \/ ApplyTransfer(i) \/ ApplySequence(i) \/ MarkConfirmed(i)
            \/ SignState(i) \/ SupersededStateTxFor(i) \/ CooperativeClose(i)
            \/ ForfeitBond(i) \/ Refresh(i)
      BY <2>1 DEF Next
    <3> QED BY <3>1, TransferStep, StateTxStep, CloseStep, ForfeitStep, MarkStep,
               RefreshStep
  <2>2. CASE UNCHANGED vars
    BY <2>2 DEF vars, Inv, ChansInv, PastInv, SignedInv
  <2> QED BY <2>1, <2>2
<1> QED BY <1>1, InvInit, PTL DEF Spec

-----------------------------------------------------------------------------
\* lifecycle.py, bond.py: every signed transaction pays out exactly what it
\* spends, on the state, close and forfeiture paths alike.
THEOREM SignedBalance == Spec => []SignedIsBalanced
<1>1. Inv => SignedIsBalanced
  BY DEF Inv, SignedInv, Settles, SignedIsBalanced
<1> QED BY <1>1, Invariance, PTL

\* lifecycle.py, sequence_for_version: under the replacement rule a close
\* overtakes every state of its channel.
THEOREM CloseOvertakes == Spec => []CloseOutbidsStates
<1>1. Inv => CloseOutbidsStates
  BY DEF Inv, SignedInv, Settles, CloseOutbidsStates
<1> QED BY <1>1, Invariance, PTL

\* lifecycle.py, build_state_tx: of the states a channel object has held, one of
\* a higher version supersedes one of a lower, and no two with different payouts
\* tie, whatever else the callers have had signed.
THEOREM SequencesIdentify == Spec => []SequenceIdentifiesState
<1>1. ASSUME Inv PROVE SequenceIdentifiesState
  <2> SUFFICES ASSUME NEW x \in HeldStates, NEW y \in HeldStates, x.of[1] = y.of[1]
               PROVE  /\ x.of[2] > y.of[2] => x.seq > y.seq
                      /\ x.seq = y.seq => x.pays = y.pays
    BY DEF SequenceIdentifiesState
  <2>1. /\ x.seq = x.of[2] /\ x.pays = Quantise(x.of[3])
        /\ y.seq = y.of[2] /\ y.pays = Quantise(y.of[3])
    BY <1>1 DEF HeldStates, Inv, SignedInv, Settles
  <2>2. x.of[2] = y.of[2] => x.of[3] = y.of[3]
    BY <1>1 DEF HeldStates, Inv, PastInv
  <2> QED BY <2>1, <2>2
<1> QED BY <1>1, Invariance, PTL

-----------------------------------------------------------------------------
(***************************************************************************)
(* A payment over any number of hops, with any horizons and delays, is     *)
(* atomic, on either of two conditions:                                    *)
(*   - the sink reveals the secret no later than its own horizon; then a   *)
(*     node may take any React < Delta blocks to answer;                   *)
(*   - every node answers within one block.                                *)
(* One of them is needed.  A claim may replace a return that is pending    *)
(* already, so a sink that waits can be seen as late as Delta - 1 blocks   *)
(* after its horizon, when the incoming return is due in one block.        *)
(***************************************************************************)

\* The sink claims no later than its horizon.
RevealInTime == SinkClaims => height <= Locktime(Length - 1)

Fact == /\ height \in Nat
        /\ hop \in [Hops -> {"open", "claimed", "returned"}]
        /\ pool \in [Hops -> {"none", "claim", "return"}]
        /\ since \in [Hops -> Nat]
        /\ seen \in [Hops -> Nat \cup {-1}]

\* A spend waits for its horizon, is in the pool for less than Delta blocks,
\* and is there only while the hop is open.
PoolInv ==
    \A j \in Hops :
      /\ hop[j] = "open" /\ pool[j] = "none" => height <= Locktime(j)
      /\ pool[j] # "none" => hop[j] = "open" /\ since[j] <= height /\ height < since[j] + Delta
      /\ pool[j] = "return" => since[j] = Locktime(j)

\* A claim that was seen is pending or mined, the secret travels from the sink
\* towards the source, and an answer is never later than React blocks.
SecretInv ==
    /\ \A j \in Hops :
         /\ seen[j] # -1 <=> pool[j] = "claim" \/ hop[j] = "claimed"
         /\ seen[j] <= height
    /\ \A i, j \in Hops : i < j /\ seen[i] # -1 => seen[j] # -1
    /\ \A j \in Hops \ {0} :
         seen[j] # -1 /\ hop[j - 1] = "open" /\ pool[j - 1] # "claim"
            => height <= seen[j] + React

\* What the two conditions have in common: an answer to a claim that was seen
\* is due before the incoming return can be mined.
SlackInv == \A j \in Hops : seen[j] # -1 => seen[j] + React <= Locktime(j) + Delta

OrderInv == \A i, j \in Hops : i < j /\ hop[i] = "returned" => hop[j] = "returned"

BaseInv == Fact /\ PoolInv /\ SecretInv
PathInv == BaseInv /\ SlackInv /\ OrderInv

-----------------------------------------------------------------------------
\* build_path: the horizons are Delta apart.
LEMMA Stagger ==
  /\ \A j \in Hops : Locktime(j) \in Int
  /\ \A j \in Hops \ {0} : j - 1 \in Hops /\ Locktime(j - 1) = Locktime(j) + Delta
<1>1. \A j \in Int : j * Delta \in Int /\ (j - 1) * Delta = j * Delta - Delta
  BY RoutingAssumption
<1>2. \A j \in Hops : j \in Int
  BY RoutingAssumption DEF Hops
<1>3. \A j \in Hops \ {0} : j - 1 \in Hops
  BY RoutingAssumption DEF Hops
<1> QED BY <1>1, <1>2, <1>3, RoutingAssumption DEF Locktime

LEMMA PathInit == RoutingInit => PathInv
<1> SUFFICES ASSUME RoutingInit PROVE PathInv
  OBVIOUS
<1>1. \A j \in Hops : 0 <= Locktime(j)
  <2> SUFFICES ASSUME NEW j \in Hops PROVE 0 <= Locktime(j)
    OBVIOUS
  <2>1. j \in Nat /\ j < Length
    BY RoutingAssumption DEF Hops
  <2>2. j * Delta <= Length * Delta
    BY <2>1, RoutingAssumption
  <2>3. j * Delta \in Int /\ Length * Delta \in Int
    BY <2>1, RoutingAssumption
  <2> QED BY <2>2, <2>3, RoutingAssumption DEF Locktime
<1> QED BY <1>1 DEF RoutingInit, PathInv, BaseInv, Fact, PoolInv, SecretInv, SlackInv, OrderInv

\* build_claim_tx and its broadcast, by a node that may: the sink, or one that
\* has the secret from its outgoing hop.
LEMMA ClaimStep ==
  ASSUME BaseInv, OrderInv, NEW k \in Hops, BroadcastClaim(k),
         \A j \in Hops : j > k => seen[j] # -1
  PROVE  /\ BaseInv' /\ OrderInv' /\ height <= Locktime(k) + Delta - 1
         /\ seen' = [seen EXCEPT ![k] = height]
<1>1. /\ hop[k] = "open" /\ pool[k] # "claim" /\ height' = height /\ hop' = hop
      /\ pool' = [pool EXCEPT ![k] = "claim"]
      /\ since' = [since EXCEPT ![k] = height]
      /\ seen' = [seen EXCEPT ![k] = height]
  BY DEF BroadcastClaim
<1>2. Fact'
  BY <1>1 DEF BaseInv, Fact
<1>3. \A j \in Hops : /\ pool'[j] = IF j = k THEN "claim" ELSE pool[j]
                      /\ since'[j] = IF j = k THEN height ELSE since[j]
                      /\ seen'[j] = IF j = k THEN height ELSE seen[j]
  BY <1>1 DEF BaseInv, Fact
<1>4. PoolInv'
  BY <1>1, <1>3, RoutingAssumption DEF BaseInv, Fact, PoolInv
<1>5. SecretInv'
  <2>1. \A j \in Hops : /\ seen'[j] # -1 <=> pool'[j] = "claim" \/ hop'[j] = "claimed"
                        /\ seen'[j] <= height'
    BY <1>1, <1>3 DEF BaseInv, Fact, SecretInv
  <2>2. \A i, j \in Hops : i < j /\ seen'[i] # -1 => seen'[j] # -1
    <3> SUFFICES ASSUME NEW i \in Hops, NEW j \in Hops, i < j, seen'[i] # -1, j # k
                 PROVE  seen'[j] # -1
      BY <1>3 DEF BaseInv, Fact
    <3>1. CASE i = k
      BY <1>3, <3>1
    <3>2. CASE i # k
      BY <1>3, <3>2 DEF BaseInv, SecretInv
    <3> QED BY <3>1, <3>2
  <2>3. ASSUME NEW j \in Hops \ {0},
               seen'[j] # -1, hop'[j - 1] = "open", pool'[j - 1] # "claim"
        PROVE  height' <= seen'[j] + React
    <3>1. j - 1 \in Hops /\ j - 1 # k /\ pool[j - 1] # "claim" /\ hop[j - 1] = "open"
      BY <1>1, <1>3, <2>3, Stagger
    <3>2. CASE j = k
      BY <1>1, <1>3, <3>2, RoutingAssumption DEF BaseInv, Fact
    <3>3. CASE j # k
      BY <1>1, <1>3, <2>3, <3>1, <3>3 DEF BaseInv, SecretInv
    <3> QED BY <3>2, <3>3
  <2> QED BY <2>1, <2>2, <2>3 DEF SecretInv
<1>6. OrderInv'
  BY <1>1 DEF OrderInv
<1>7. height <= Locktime(k) + Delta - 1
  <2>1. pool[k] \in {"none", "return"} /\ height \in Nat /\ Locktime(k) \in Int
    BY <1>1, Stagger DEF BaseInv, Fact
  <2>2. CASE pool[k] = "none"
    BY <1>1, <2>1, <2>2, RoutingAssumption DEF BaseInv, PoolInv
  <2>3. CASE pool[k] = "return"
    BY <1>1, <2>1, <2>3, RoutingAssumption DEF BaseInv, PoolInv
  <2> QED BY <2>1, <2>2, <2>3
<1> QED BY <1>1, <1>2, <1>4, <1>5, <1>6, <1>7 DEF BaseInv

\* build_return_tx and its broadcast.
LEMMA ReturnStep ==
  ASSUME PathInv, NEW k \in Hops, BroadcastReturn(k)
  PROVE  PathInv'
<1>1. /\ hop[k] = "open" /\ pool[k] = "none" /\ height >= Locktime(k)
      /\ height' = height /\ hop' = hop /\ seen' = seen
      /\ pool' = [pool EXCEPT ![k] = "return"]
      /\ since' = [since EXCEPT ![k] = height]
  BY DEF BroadcastReturn, ReturnValid
<1>2. \A j \in Hops : /\ pool'[j] = IF j = k THEN "return" ELSE pool[j]
                      /\ since'[j] = IF j = k THEN height ELSE since[j]
  BY <1>1 DEF PathInv, BaseInv, Fact
<1>3. Fact'
  BY <1>1 DEF PathInv, BaseInv, Fact
<1>4. height = Locktime(k)
  BY <1>1, Stagger DEF PathInv, BaseInv, Fact, PoolInv
<1>5. PoolInv'
  BY <1>1, <1>2, <1>4, RoutingAssumption DEF PathInv, BaseInv, Fact, PoolInv
<1>6. SecretInv'
  BY <1>1, <1>2, Stagger DEF PathInv, BaseInv, SecretInv
<1> QED BY <1>1, <1>3, <1>5, <1>6 DEF PathInv, BaseInv, SlackInv, OrderInv

\* The next block: when it confirms a return, the next hop was returned before.
LEMMA MineStep ==
  ASSUME PathInv, MineBlock
  PROVE  PathInv'
<1>1. /\ height' = height + 1 /\ since' = since /\ seen' = seen
      /\ \A j \in Hops : ~ReturnDue(j) /\ ~ClaimDue(j)
  BY DEF MineBlock
<1>2. PICK mined \in SUBSET {j \in Hops : pool[j] # "none"} :
        /\ {j \in Hops : MustConfirm(j)} \subseteq mined
        /\ hop' = [j \in Hops |-> IF j \notin mined THEN hop[j]
                                  ELSE IF pool[j] = "claim" THEN "claimed" ELSE "returned"]
        /\ pool' = [j \in Hops |-> IF j \in mined THEN "none" ELSE pool[j]]
  BY DEF MineBlock
<1>3. \A j \in Hops :
        /\ hop'[j] = IF j \notin mined THEN hop[j]
                     ELSE IF pool[j] = "claim" THEN "claimed" ELSE "returned"
        /\ pool'[j] = IF j \in mined THEN "none" ELSE pool[j]
        /\ j \in mined => pool[j] # "none" /\ hop[j] = "open"
        /\ pool[j] # "none" /\ height + 1 >= since[j] + Delta => j \in mined
  BY <1>2 DEF MustConfirm, PathInv, BaseInv, PoolInv
<1>4. Fact'
  BY <1>1, <1>2 DEF PathInv, BaseInv, Fact
<1>5. \A j \in Hops : /\ height \in Nat /\ since[j] \in Nat /\ Locktime(j) \in Int
                      /\ seen[j] \in Int /\ Delta \in Nat /\ React \in Nat
  BY Stagger, RoutingAssumption DEF PathInv, BaseInv, Fact
<1>6. PoolInv'
  <2> SUFFICES ASSUME NEW j \in Hops
               PROVE  /\ hop'[j] = "open" /\ pool'[j] = "none" => height' <= Locktime(j)
                      /\ pool'[j] # "none" => /\ hop'[j] = "open" /\ since'[j] <= height'
                                              /\ height' < since'[j] + Delta
                      /\ pool'[j] = "return" => since'[j] = Locktime(j)
    BY DEF PoolInv
  <2>1. CASE j \in mined
    BY <1>3, <2>1
  <2>2. CASE j \notin mined
    <3>1. hop'[j] = hop[j] /\ pool'[j] = pool[j]
      BY <1>3, <2>2
    <3>2. pool[j] # "none" => height + 1 < since[j] + Delta
      BY <1>3, <1>5, <2>2
    <3>3. hop[j] = "open" /\ pool[j] = "none" => height < Locktime(j)
      BY <1>1, <1>5 DEF ReturnDue
    <3> QED BY <1>1, <1>5, <3>1, <3>2, <3>3 DEF PathInv, BaseInv, PoolInv
  <2> QED BY <2>1, <2>2
<1>7. SecretInv'
  <2>1. \A j \in Hops : /\ seen'[j] # -1 <=> pool'[j] = "claim" \/ hop'[j] = "claimed"
                        /\ seen'[j] <= height'
    BY <1>1, <1>3, <1>5 DEF PathInv, BaseInv, SecretInv
  <2>2. \A i, j \in Hops : i < j /\ seen'[i] # -1 => seen'[j] # -1
    BY <1>1 DEF PathInv, BaseInv, SecretInv
  <2>3. ASSUME NEW j \in Hops \ {0},
               seen'[j] # -1, hop'[j - 1] = "open", pool'[j - 1] # "claim"
        PROVE  height' <= seen'[j] + React
    <3>1. j - 1 \in Hops /\ j > 0
      BY Stagger, RoutingAssumption DEF Hops
    <3>2. hop[j - 1] = "open" /\ pool[j - 1] # "claim"
      BY <1>3, <2>3, <3>1
    <3>3. ~(height >= seen[j] + React)
      BY <1>1, <2>3, <3>1, <3>2 DEF ClaimDue, Learned
    <3> QED BY <1>1, <1>5, <3>3
  <2> QED BY <2>1, <2>2, <2>3 DEF SecretInv
<1>8. OrderInv'
  <2> SUFFICES ASSUME NEW i \in Hops, NEW j \in Hops, i < j, hop'[i] = "returned"
               PROVE  hop'[j] = "returned"
    BY DEF OrderInv
  <2>1. CASE i \notin mined
    <3>1. hop[j] = "returned"
      BY <1>3, <2>1 DEF PathInv, OrderInv
    <3> QED BY <1>3, <3>1
  <2>2. CASE i \in mined
    <3> DEFINE n == i + 1
    <3>1. /\ n \in Hops \ {0} /\ n - 1 = i /\ n > 0 /\ n <= j
          /\ i \in Int /\ j \in Int /\ n \in Int
      BY RoutingAssumption DEF Hops
    <3>2. Locktime(i) = Locktime(n) + Delta
      BY <3>1, Stagger
    <3> HIDE DEF n
    <3>3. hop[i] = "open" /\ pool[i] = "return"
      BY <1>2, <1>3, <2>2 DEF PathInv, BaseInv, Fact
    <3>4. height >= Locktime(n) + Delta
      BY <1>5, <3>2, <3>3 DEF PathInv, BaseInv, PoolInv
    <3>5. seen[n] = -1
      <4> SUFFICES ASSUME seen[n] # -1 PROVE FALSE
        OBVIOUS
      <4>1. seen[n] + React <= Locktime(n) + Delta
        BY <3>1 DEF PathInv, SlackInv
      <4>2. height >= seen[n] + React
        BY <1>5, <3>1, <3>4, <4>1
      <4> QED BY <1>1, <3>1, <3>3, <4>2 DEF ClaimDue, Learned
    <3>6. hop[n] # "claimed" /\ pool[n] # "claim"
      BY <3>1, <3>5 DEF PathInv, BaseInv, SecretInv
    <3>7. ~(hop[n] = "open" /\ pool[n] = "none")
      BY <1>5, <3>1, <3>4, RoutingAssumption DEF PathInv, BaseInv, PoolInv
    <3>8. pool[n] # "return"
      BY <1>5, <3>1, <3>4 DEF PathInv, BaseInv, PoolInv
    <3>9. hop[n] = "returned"
      BY <3>1, <3>6, <3>7, <3>8 DEF PathInv, BaseInv, Fact
    <3>10. hop[j] = "returned"
      BY <3>1, <3>9 DEF PathInv, OrderInv
    <3> QED BY <1>3, <3>10
  <2> QED BY <2>1, <2>2
<1>9. SlackInv'
  BY <1>1 DEF PathInv, SlackInv
<1> QED BY <1>4, <1>6, <1>7, <1>8, <1>9 DEF PathInv, BaseInv

-----------------------------------------------------------------------------
\* A node claims its incoming hop only after every later hop was claimed.
LEMMA LearnedFromLaterHops ==
  ASSUME BaseInv
  PROVE  /\ \A k \in Hops : SinkClaims /\ k = Length - 1 => \A j \in Hops : ~(j > k)
         /\ \A k \in Hops : IntermediaryClaims(k) =>
              k \in Hops \ {0} /\ k - 1 \in Hops /\ \A j \in Hops : j > k - 1 => seen[j] # -1
<1>1. \A k \in Hops : k \in Int
  BY RoutingAssumption DEF Hops
<1>2. \A k \in Hops : k = Length - 1 => \A j \in Hops : ~(j > k)
  BY RoutingAssumption DEF Hops
<1>3. ASSUME NEW k \in Hops, IntermediaryClaims(k)
      PROVE  k \in Hops \ {0} /\ k - 1 \in Hops /\ \A j \in Hops : j > k - 1 => seen[j] # -1
  <2>1. k > 0 /\ seen[k] # -1
    BY <1>3 DEF IntermediaryClaims, Learned
  <2>2. k \in Hops \ {0} /\ k - 1 \in Hops
    BY <1>1, <2>1, Stagger
  <2>3. \A j \in Hops : j > k - 1 => j = k \/ k < j
    BY <1>1
  <2> QED BY <2>1, <2>2, <2>3 DEF BaseInv, SecretInv
<1> QED BY <1>2, <1>3

LEMMA ClaimKeepsPath ==
  ASSUME PathInv, NEW k \in Hops, BroadcastClaim(k),
         \A j \in Hops : j > k => seen[j] # -1,
         height + React <= Locktime(k) + Delta
  PROVE  PathInv'
<1>1. BaseInv' /\ OrderInv' /\ seen' = [seen EXCEPT ![k] = height]
  BY ClaimStep DEF PathInv
<1>2. \A j \in Hops : seen'[j] = IF j = k THEN height ELSE seen[j]
  BY <1>1 DEF PathInv, BaseInv, Fact
<1>3. SlackInv'
  BY <1>2 DEF PathInv, SlackInv
<1> QED BY <1>1, <1>3 DEF PathInv

\* Every node answers within one block: a claim that replaces a pending return
\* is at most Delta - 1 blocks past the horizon, so the answer is in time.
LEMMA PromptStep ==
  ASSUME React <= 1, PathInv, [RoutingNext]_routingVars
  PROVE  PathInv'
<1>1. \A k \in Hops : Locktime(k) \in Int /\ height \in Nat
  BY Stagger DEF PathInv, BaseInv, Fact
<1>2. ASSUME NEW k \in Hops, BroadcastClaim(k), \A j \in Hops : j > k => seen[j] # -1
      PROVE  PathInv'
  <2>1. height <= Locktime(k) + Delta - 1
    BY <1>2, ClaimStep DEF PathInv
  <2>2. height + React <= Locktime(k) + Delta
    BY <1>1, <2>1, RoutingAssumption
  <2> QED BY <1>2, <2>2, ClaimKeepsPath
<1>3. CASE SinkClaims
  <2>1. Length - 1 \in Hops
    BY RoutingAssumption DEF Hops
  <2> QED BY <1>2, <1>3, <2>1, LearnedFromLaterHops DEF SinkClaims, PathInv
<1>4. CASE \E j \in Hops : IntermediaryClaims(j)
  BY <1>2, <1>4, LearnedFromLaterHops DEF IntermediaryClaims, PathInv
<1>5. CASE \E j \in Hops : BroadcastReturn(j)
  BY <1>5, ReturnStep
<1>6. CASE MineBlock
  BY <1>6, MineStep
<1>7. CASE UNCHANGED routingVars
  BY <1>7 DEF routingVars, PathInv, BaseInv, Fact, PoolInv, SecretInv, SlackInv, OrderInv,
              Locktime
<1> QED BY <1>3, <1>4, <1>5, <1>6, <1>7 DEF RoutingNext

\* The sink reveals in time: then every hop is claimed before its own horizon.
InTimeInv == \A j \in Hops : seen[j] # -1 => seen[j] <= Locktime(j)

LEMMA TimelyStep ==
  ASSUME PathInv, InTimeInv, [RoutingNext]_routingVars, [RevealInTime]_routingVars
  PROVE  PathInv' /\ InTimeInv'
<1>1. \A k \in Hops : /\ Locktime(k) \in Int /\ height \in Nat
                      /\ seen \in [Hops -> Nat \cup {-1}]
  BY Stagger DEF PathInv, BaseInv, Fact
<1>2. ASSUME NEW k \in Hops, BroadcastClaim(k), \A j \in Hops : j > k => seen[j] # -1,
             height <= Locktime(k)
      PROVE  PathInv' /\ InTimeInv'
  <2>1. height + React <= Locktime(k) + Delta
    BY <1>1, <1>2, RoutingAssumption
  <2>2. seen' = [seen EXCEPT ![k] = height]
    BY <1>2 DEF BroadcastClaim
  <2>3. \A j \in Hops : seen'[j] = IF j = k THEN height ELSE seen[j]
    BY <1>1, <2>2
  <2> QED BY <1>2, <2>1, <2>3, ClaimKeepsPath DEF InTimeInv
<1>3. CASE SinkClaims
  <2>1. Length - 1 \in Hops
    BY RoutingAssumption DEF Hops
  <2>2. seen' # seen
    <3>1. /\ hop[Length - 1] = "open" /\ pool[Length - 1] # "claim"
          /\ seen' = [seen EXCEPT ![Length - 1] = height]
      BY <1>3 DEF SinkClaims, BroadcastClaim
    <3>2. seen[Length - 1] = -1
      BY <2>1, <3>1 DEF PathInv, BaseInv, SecretInv
    <3> QED BY <1>1, <2>1, <3>1, <3>2
  <2>3. height <= Locktime(Length - 1)
    BY <1>3, <2>2 DEF RevealInTime, routingVars
  <2> QED BY <1>2, <1>3, <2>1, <2>3, LearnedFromLaterHops DEF SinkClaims, PathInv
<1>4. ASSUME NEW j \in Hops, IntermediaryClaims(j)
      PROVE  PathInv' /\ InTimeInv'
  <2>1. /\ j \in Hops \ {0} /\ j - 1 \in Hops
        /\ \A i \in Hops : i > j - 1 => seen[i] # -1
    BY <1>4, LearnedFromLaterHops DEF PathInv
  <2>2. /\ seen[j] # -1 /\ BroadcastClaim(j - 1)
        /\ hop[j - 1] = "open" /\ pool[j - 1] # "claim"
    BY <1>4 DEF IntermediaryClaims, Learned, BroadcastClaim
  <2>3. height <= seen[j] + React /\ seen[j] <= Locktime(j)
    BY <2>1, <2>2 DEF PathInv, BaseInv, SecretInv, InTimeInv
  <2>4. height <= Locktime(j - 1)
    BY <1>1, <2>1, <2>2, <2>3, Stagger, RoutingAssumption
  <2> QED BY <1>2, <2>1, <2>2, <2>4
<1>5. ASSUME NEW j \in Hops, BroadcastReturn(j)
      PROVE  PathInv' /\ InTimeInv'
  BY <1>5, ReturnStep DEF BroadcastReturn, InTimeInv
<1>6. CASE MineBlock
  BY <1>6, MineStep DEF MineBlock, InTimeInv
<1>7. CASE UNCHANGED routingVars
  BY <1>7 DEF routingVars, PathInv, BaseInv, Fact, PoolInv, SecretInv, SlackInv, OrderInv,
              InTimeInv, Locktime
<1> QED BY <1>3, <1>4, <1>5, <1>6, <1>7 DEF RoutingNext

\* What the invariant says of a payment that is over.
LEMMA PathIsAtomic == PathInv => OutgoingSettlesFirst /\ AllOrNothing
<1> SUFFICES ASSUME PathInv PROVE OutgoingSettlesFirst /\ AllOrNothing
  OBVIOUS
<1>1. OutgoingSettlesFirst
  <2>1. \A j \in Hops \ {0} : j - 1 \in Hops /\ j - 1 < j
    BY Stagger, RoutingAssumption DEF Hops
  <2> QED BY <2>1 DEF PathInv, OrderInv, OutgoingSettlesFirst
<1>2. AllOrNothing
  <2> SUFFICES ASSUME \A j \in Hops : hop[j] # "open"
               PROVE  \E outcome \in {"claimed", "returned"} :
                        \A j \in Hops : hop[j] = outcome
    BY DEF AllOrNothing
  <2>1. \A j \in Hops : hop[j] = "claimed" \/ hop[j] = "returned"
    BY DEF PathInv, BaseInv, Fact
  <2>2. \A j \in Hops : hop[j] = "claimed" <=> seen[j] # -1
    BY DEF PathInv, BaseInv, SecretInv, PoolInv
  <2>3. /\ Length - 1 \in Hops
        /\ \A j \in Hops : j = Length - 1 \/ j < Length - 1
    BY RoutingAssumption DEF Hops
  <2>4. CASE hop[Length - 1] = "claimed"
    <3>1. \A j \in Hops : hop[j] # "returned"
      BY <2>3, <2>4 DEF PathInv, OrderInv
    <3> QED BY <2>1, <3>1
  <2>5. CASE hop[Length - 1] = "returned"
    <3>1. seen[Length - 1] = -1
      BY <2>2, <2>3, <2>5
    <3>2. \A j \in Hops : seen[j] = -1
      BY <2>3, <3>1 DEF PathInv, BaseInv, SecretInv
    <3>3. \A j \in Hops : hop[j] = "returned"
      BY <2>1, <2>2, <3>2
    <3> QED BY <3>3
  <2> QED BY <2>1, <2>3, <2>4, <2>5
<1> QED BY <1>1, <1>2

\* Whenever the sink reveals the secret, and however late: if every node
\* answers within a block, no node loses its incoming hop while its outgoing
\* hop is open or claimed, and a payment that is over was claimed everywhere
\* or returned everywhere.
THEOREM PromptPathIsAtomic ==
  ASSUME React <= 1
  PROVE  RoutingSpec => [](OutgoingSettlesFirst /\ AllOrNothing)
<1>1. RoutingInit => PathInv
  BY PathInit
<1>2. PathInv /\ [RoutingNext]_routingVars => PathInv'
  BY PromptStep
<1> QED BY <1>1, <1>2, PathIsAtomic, PTL DEF RoutingSpec

\* The same for nodes that answer in any time shorter than Delta, if the sink
\* reveals the secret no later than its own horizon: "each intermediary has at
\* least Delta time to claim its incoming hop".
THEOREM TimelyPathIsAtomic ==
  RoutingSpec /\ [][RevealInTime]_routingVars => [](OutgoingSettlesFirst /\ AllOrNothing)
<1>1. RoutingInit => PathInv /\ InTimeInv
  BY PathInit DEF RoutingInit, InTimeInv
<1>2. (PathInv /\ InTimeInv) /\ [RoutingNext]_routingVars /\ [RevealInTime]_routingVars
         => (PathInv /\ InTimeInv)'
  BY TimelyStep
<1> QED BY <1>1, <1>2, PathIsAtomic, PTL DEF RoutingSpec

-----------------------------------------------------------------------------
(***************************************************************************)
(* A channel's file, written in place by processes that may overlap and be *)
(* killed.                                                                 *)
(***************************************************************************)
Documents == [ch : Nat, bal : Balanced, ver : Nat]

\* Whoever is saving holds a document; the file is one that was reported, or
\* none.  A channel's number is that of the run that opened it.
FileTypeInv ==
    /\ runs \in Nat
    /\ pc \in [Commands -> {"idle", "truncate", "write"}]
    /\ mine \in [Commands -> Documents \cup {Missing}]
    /\ \A p \in Commands : pc[p] # "idle" => mine[p] \in Documents /\ mine[p].ch <= runs
    /\ acked \subseteq Documents
    /\ \A d \in acked : d.ch <= runs
    /\ file \in acked \cup {Missing, Empty, Torn}

\* The version of a reported or held document comes from a reported one.
LineageInv ==
    \A d \in (acked \cup {mine[p] : p \in Commands}) \ {Missing} :
        d.ver = 0 \/ \E e \in acked : e.ch = d.ch /\ d.ver - e.ver \in 0 .. 2

ClosesInv ==
    \A c \in closes :
        /\ Total(c.pays) = S + Total(BondValues)
        /\ \E d \in acked : d.ch = c.ch /\ d.ver = c.ver /\ c.pays = CmdClosePays(d)

\* As long as no two commands overlapped there is one saver, it works on an
\* emptied file, and it holds what was last reported or a version above all
\* that were reported of its channel; the last report is the highest.
SerialInv ==
    ~raced =>
      /\ \A p, q \in Commands : pc[p] # "idle" /\ pc[q] # "idle" => p = q
      /\ \A p \in Commands : pc[p] = "write" => file = Empty
      /\ (\A p \in Commands : pc[p] # "write") => file \in {latest, Empty, Torn}
      /\ \A p \in Commands : pc[p] # "idle" =>
           \/ mine[p] = latest /\ latest \in acked
           \/ \A e \in acked : e.ch = mine[p].ch => e.ver < mine[p].ver
      /\ \A e \in acked : latest \in acked /\ (e.ch = latest.ch => e.ver <= latest.ver)
      /\ \A d, e \in acked : (d.ch = e.ch /\ d.ver = e.ver) => d.bal = e.bal

FileInv == FileTypeInv /\ LineageInv /\ ClosesInv /\ SerialInv

-----------------------------------------------------------------------------
\* cmd_close pays out the whole channel.
LEMMA ClosePaysAll ==
  ASSUME NEW d \in Documents
  PROVE  Total(CmdClosePays(d)) = S + Total(BondValues)
<1>1. d.bal \in Allocations /\ Conserved(d.bal)
  BY DEF Documents, Balanced
<1>2. Quantise(d.bal) \in [Parties -> Nat] /\ Total(Quantise(d.bal)) = S
  BY <1>1, QuantiseTotal
<1>3. BondValues \in [Parties -> Nat]
  BY SnapshotAssumption
<1>4. Quantise(d.bal) \in Vectors /\ BondValues \in Vectors /\ CmdClosePays(d) \in Vectors
  BY <1>2, <1>3 DEF Vectors, CmdClosePays
<1>5. \A p \in Parties : CmdClosePays(d)[p] = Quantise(d.bal)[p] + BondValues[p]
  BY DEF CmdClosePays
<1> QED BY <1>2, <1>4, <1>5, TotalAdd

LEMMA OneTransferBalanced ==
  ASSUME NEW b \in Balanced
  PROVE  OneTransfer(b) \subseteq Balanced
<1> SUFFICES ASSUME NEW x \in OneTransfer(b) PROVE x \in Balanced
  OBVIOUS
<1>1. PICK t \in Parties \X Parties \X (0 .. MicroUnits) :
        TransferOK(b, t[1], t[2], t[3]) /\ x = Transfer(b, t[1], t[2], t[3])
  BY DEF OneTransfer
<1>2. t[1] \in Parties /\ t[2] \in Parties /\ t[3] \in Nat
  BY ConfigAssumption DEF MicroUnits
<1> QED BY <1>1, <1>2, TransferConserves DEF Balanced, Conserved

\* apply_sequence, for one command: the document itself, or one of the same
\* channel with a version one or two higher.
LEMMA AppliedDocument ==
  ASSUME NEW f \in Documents, NEW d \in Applied(f)
  PROVE  /\ d \in Documents /\ d.ch = f.ch
         /\ d.ver - f.ver \in 0 .. 2
         /\ d = f \/ d.ver > f.ver
<1>1. f.ch \in Nat /\ f.bal \in Balanced /\ f.ver \in Nat
  BY DEF Documents
<1>2. CASE d = f
  BY <1>1, <1>2
<1>3. ASSUME NEW b \in Balanced, NEW k \in {1, 2},
             d = [f EXCEPT !.bal = b, !.ver = f.ver + k]
      PROVE  /\ d \in Documents /\ d.ch = f.ch
             /\ d.ver - f.ver \in 0 .. 2 /\ d.ver > f.ver
  <2> DEFINE v == f.ver + k
  <2>1. v \in Nat /\ v - f.ver \in 0 .. 2 /\ v > f.ver
    BY <1>1
  <2>2. d = [f EXCEPT !.bal = b, !.ver = v]
    BY <1>3
  <2> HIDE DEF v
  <2>3. d \in Documents /\ d.ch = f.ch /\ d.ver = v
    BY <2>1, <2>2 DEF Documents
  <2> QED BY <2>1, <2>3
<1>4. CASE d \in {[f EXCEPT !.bal = b, !.ver = @ + 1] : b \in OneTransfer(f.bal)}
  <2>1. PICK b \in OneTransfer(f.bal) : d = [f EXCEPT !.bal = b, !.ver = @ + 1]
    BY <1>4
  <2>2. b \in Balanced
    BY <1>1, OneTransferBalanced
  <2> QED BY <1>3, <2>1, <2>2
<1>5. CASE d \in {[f EXCEPT !.bal = b, !.ver = @ + 2] :
                    b \in UNION {OneTransfer(x) : x \in OneTransfer(f.bal)}}
  <2> DEFINE Twice == UNION {OneTransfer(x) : x \in OneTransfer(f.bal)}
  <2>1. PICK b \in Twice : d = [f EXCEPT !.bal = b, !.ver = @ + 2]
    BY <1>5
  <2>3. PICK x \in OneTransfer(f.bal) : b \in OneTransfer(x)
    OBVIOUS
  <2>2. b \in Balanced
    BY <1>1, <2>3, OneTransferBalanced
  <2> QED BY <1>3, <2>1, <2>2
<1> QED BY <1>2, <1>4, <1>5 DEF Applied

LEMMA FileInit == SnapshotInit => FileInv
  BY DEF SnapshotInit, FileInv, FileTypeInv, LineageInv, ClosesInv, SerialInv

\* A process takes a document to save: one whose version comes from a report,
\* and which is the last report or above all reports of its channel.
LEMMA HoldsStep ==
  ASSUME FileInv, NEW p \in Commands, pc[p] = "idle", NEW d \in Documents,
         d.ch <= runs + 1,
         d.ver = 0 \/ \E e \in acked : e.ch = d.ch /\ d.ver - e.ver \in 0 .. 2,
         (~raced /\ \A q \in Commands : pc[q] = "idle") =>
            \/ d = latest /\ latest \in acked
            \/ \A e \in acked : e.ch = d.ch => e.ver < d.ver,
         Holds(p, d)
  PROVE  FileInv'
<1>1. /\ pc' = [pc EXCEPT ![p] = "truncate"] /\ mine' = [mine EXCEPT ![p] = d]
      /\ runs' = runs + 1 /\ raced' = (raced \/ Busy(p))
      /\ UNCHANGED <<file, kills, acked, latest, closes>>
  BY DEF Holds
<1>2. FileTypeInv'
  BY <1>1 DEF FileInv, FileTypeInv, Documents
<1>3. LineageInv'
  <2>1. \A q \in Commands : mine'[q] = IF q = p THEN d ELSE mine[q]
    BY <1>1 DEF FileInv, FileTypeInv
  <2> QED BY <1>1, <2>1 DEF FileInv, LineageInv
<1>4. ClosesInv'
  BY <1>1 DEF FileInv, ClosesInv
<1>5. SerialInv'
  <2> SUFFICES ASSUME ~raced' PROVE SerialInv'
    BY DEF SerialInv
  <2>1. ~raced /\ \A q \in Commands : pc[q] = "idle"
    BY <1>1 DEF Busy
  <2>2. \A q \in Commands : /\ pc'[q] = IF q = p THEN "truncate" ELSE "idle"
                            /\ mine'[q] = IF q = p THEN d ELSE mine[q]
    BY <1>1, <2>1 DEF FileInv, FileTypeInv
  <2> QED BY <1>1, <2>1, <2>2 DEF FileInv, SerialInv
<1> QED BY <1>2, <1>3, <1>4, <1>5 DEF FileInv

LEMMA OpenStep ==
  ASSUME FileInv, NEW p \in Commands, CmdOpen(p)
  PROVE  FileInv'
<1> DEFINE d == ChannelToDict(runs + 1, InitialBalances, 0)
<1>1. d \in Documents /\ d.ch = runs + 1 /\ d.ver = 0
  BY InitialConserved DEF ChannelToDict, Documents, Balanced, FileInv, FileTypeInv
<1>2. \A e \in acked : e.ch # d.ch
  BY <1>1 DEF FileInv, FileTypeInv, Documents
<1>3. pc[p] = "idle" /\ Holds(p, d)
  BY DEF CmdOpen
<1>4. d.ch <= runs + 1
  BY <1>1 DEF FileInv, FileTypeInv
<1> HIDE DEF d
<1> QED BY <1>1, <1>2, <1>3, <1>4, HoldsStep

LEMMA CmdTransferStep ==
  ASSUME FileInv, NEW p \in Commands, CmdTransfer(p)
  PROVE  FileInv'
<1>1. PICK d \in Applied(file) : Holds(p, d)
  BY DEF CmdTransfer
<1>2. pc[p] = "idle" /\ file \notin {Missing, Empty, Torn}
  BY DEF CmdTransfer, Loads
<1>3. file \in acked /\ file \in Documents /\ file.ch <= runs
  BY <1>2 DEF FileInv, FileTypeInv
<1>4. /\ d \in Documents /\ d.ch = file.ch /\ d.ver - file.ver \in 0 .. 2
      /\ d = file \/ d.ver > file.ver
  BY <1>3, AppliedDocument
<1>5. runs \in Nat /\ d.ch \in Nat /\ d.ch <= runs + 1
  BY <1>3, <1>4 DEF FileInv, FileTypeInv, Documents
<1>6. ASSUME ~raced, \A q \in Commands : pc[q] = "idle"
      PROVE  \/ d = latest /\ latest \in acked
             \/ \A e \in acked : e.ch = d.ch => e.ver < d.ver
  <2>1. file = latest
    BY <1>2, <1>6 DEF FileInv, SerialInv
  <2>2. \A e \in acked : e.ch = latest.ch => e.ver <= latest.ver
    BY <1>6 DEF FileInv, SerialInv
  <2>3. \A e \in acked : e.ver \in Nat
    BY DEF FileInv, FileTypeInv, Documents
  <2>4. d.ver \in Nat
    BY <1>4 DEF Documents
  <2> QED BY <1>3, <1>4, <2>1, <2>2, <2>3, <2>4
<1> QED BY <1>1, <1>2, <1>3, <1>4, <1>5, <1>6, HoldsStep

LEMMA TruncateStep ==
  ASSUME FileInv, NEW p \in Commands, Truncate(p)
  PROVE  FileInv'
<1>1. /\ pc[p] = "truncate" /\ pc' = [pc EXCEPT ![p] = "write"] /\ file' = Empty
      /\ UNCHANGED <<mine, runs, kills, acked, latest, closes, raced>>
  BY DEF Truncate
<1>2. FileTypeInv'
  BY <1>1 DEF FileInv, FileTypeInv
<1>3. LineageInv' /\ ClosesInv'
  BY <1>1 DEF FileInv, LineageInv, ClosesInv
<1>4. \A q \in Commands : pc'[q] = IF q = p THEN "write" ELSE pc[q]
  BY <1>1 DEF FileInv, FileTypeInv
<1>5. SerialInv'
  BY <1>1, <1>4 DEF FileInv, SerialInv
<1> QED BY <1>2, <1>3, <1>5 DEF FileInv

LEMMA WriteStep ==
  ASSUME FileInv, NEW p \in Commands, Write(p)
  PROVE  FileInv'
<1> DEFINE d == mine[p]
<1>1. /\ pc[p] = "write" /\ pc' = [pc EXCEPT ![p] = "idle"]
      /\ mine' = [mine EXCEPT ![p] = Missing]
      /\ acked' = acked \cup {d} /\ latest' = d
      /\ UNCHANGED <<runs, kills, closes, raced>>
  BY DEF Write
<1>2. file' = d \/ (file # Empty /\ file' = Torn)
  BY DEF Write, WriteOutcomes
<1>3. d \in Documents /\ d.ch <= runs
  BY <1>1 DEF FileInv, FileTypeInv
<1>4. \A q \in Commands : /\ pc'[q] = IF q = p THEN "idle" ELSE pc[q]
                          /\ mine'[q] = IF q = p THEN Missing ELSE mine[q]
  BY <1>1 DEF FileInv, FileTypeInv
<1>5. FileTypeInv'
  BY <1>1, <1>2, <1>3 DEF FileInv, FileTypeInv
<1>6. LineageInv'
  <2> SUFFICES ASSUME NEW x \in (acked' \cup {mine'[q] : q \in Commands}) \ {Missing}
               PROVE  x.ver = 0 \/ \E e \in acked' : e.ch = x.ch /\ x.ver - e.ver \in 0 .. 2
    BY DEF LineageInv
  <2>1. x \in (acked \cup {mine[q] : q \in Commands}) \ {Missing}
    BY <1>1, <1>4
  <2> QED BY <1>1, <2>1 DEF FileInv, LineageInv
<1>7. ClosesInv'
  BY <1>1 DEF FileInv, ClosesInv
<1>8. SerialInv'
  <2> SUFFICES ASSUME ~raced PROVE SerialInv'
    BY <1>1 DEF SerialInv
  <2>1. file = Empty /\ \A q \in Commands : pc'[q] = "idle"
    BY <1>1, <1>4 DEF FileInv, SerialInv
  <2>2. file' = latest'
    BY <1>1, <1>2, <2>1
  <2>3. /\ \/ d = latest /\ latest \in acked
           \/ \A e \in acked : e.ch = d.ch => e.ver < d.ver
        /\ \A e \in acked : e.ch = latest.ch => e.ver <= latest.ver
        /\ \A x, e \in acked : (x.ch = e.ch /\ x.ver = e.ver) => x.bal = e.bal
    BY <1>1, <2>1 DEF FileInv, SerialInv
  <2>4. \A e \in acked' : e.ver \in Nat
    BY <1>5 DEF FileTypeInv, Documents
  <2>5. \A e \in acked' : latest' \in acked' /\ (e.ch = latest'.ch => e.ver <= latest'.ver)
    BY <1>1, <2>3, <2>4
  <2>6. \A x, e \in acked' : (x.ch = e.ch /\ x.ver = e.ver) => x.bal = e.bal
    BY <1>1, <2>3, <2>4
  <2> QED BY <2>1, <2>2, <2>5, <2>6 DEF SerialInv
<1> QED BY <1>5, <1>6, <1>7, <1>8 DEF FileInv

LEMMA CmdCloseStep ==
  ASSUME FileInv, NEW p \in Commands, CmdClose(p)
  PROVE  FileInv'
<1> DEFINE c == [ch |-> file.ch, ver |-> file.ver, pays |-> CmdClosePays(file)]
<1>1. /\ closes' = closes \cup {c} /\ file \notin {Missing, Empty, Torn}
      /\ UNCHANGED <<file, pc, mine, runs, kills, acked, latest, raced>>
  BY DEF CmdClose, Loads, fileVars
<1>2. file \in acked /\ file \in Documents
  BY <1>1 DEF FileInv, FileTypeInv
<1>3. Total(c.pays) = S + Total(BondValues)
  BY <1>2, ClosePaysAll
<1>4. ClosesInv'
  BY <1>1, <1>2, <1>3 DEF FileInv, ClosesInv
<1> QED BY <1>1, <1>4 DEF FileInv, FileTypeInv, LineageInv, SerialInv

LEMMA KillStep ==
  ASSUME FileInv, NEW p \in Commands, Kill(p)
  PROVE  FileInv'
<1>1. /\ pc' = [pc EXCEPT ![p] = "idle"] /\ mine' = [mine EXCEPT ![p] = Missing]
      /\ file' = file \/ (pc[p] = "write" /\ file' = Torn)
      /\ UNCHANGED <<runs, acked, latest, closes, raced>>
  BY DEF Kill
<1>2. pc[p] # "idle"
  BY DEF Kill
<1>3. \A q \in Commands : /\ pc'[q] = IF q = p THEN "idle" ELSE pc[q]
                          /\ mine'[q] = IF q = p THEN Missing ELSE mine[q]
  BY <1>1 DEF FileInv, FileTypeInv
<1>4. FileTypeInv'
  BY <1>1 DEF FileInv, FileTypeInv
<1>5. LineageInv'
  <2> SUFFICES ASSUME NEW x \in (acked' \cup {mine'[q] : q \in Commands}) \ {Missing}
               PROVE  x.ver = 0 \/ \E e \in acked' : e.ch = x.ch /\ x.ver - e.ver \in 0 .. 2
    BY DEF LineageInv
  <2>1. x \in (acked \cup {mine[q] : q \in Commands}) \ {Missing}
    BY <1>1, <1>3
  <2> QED BY <1>1, <2>1 DEF FileInv, LineageInv
<1>6. ClosesInv'
  BY <1>1 DEF FileInv, ClosesInv
<1>7. SerialInv'
  <2> SUFFICES ASSUME ~raced PROVE SerialInv'
    BY <1>1 DEF SerialInv
  <2>1. \A q \in Commands : pc'[q] = "idle"
    BY <1>2, <1>3 DEF FileInv, SerialInv
  <2>2. file' \in {latest', Empty, Torn}
    <3>1. CASE pc[p] = "write"
      BY <1>1, <3>1 DEF FileInv, SerialInv
    <3>2. CASE pc[p] # "write"
      <4>1. \A q \in Commands : pc[q] # "write"
        BY <1>2, <3>2 DEF FileInv, SerialInv
      <4> QED BY <1>1, <3>2, <4>1 DEF FileInv, SerialInv
    <3> QED BY <3>1, <3>2
  <2> QED BY <1>1, <2>1, <2>2 DEF FileInv, SerialInv
<1> QED BY <1>4, <1>5, <1>6, <1>7 DEF FileInv

LEMMA FileInvariance == SnapshotSpec => []FileInv
<1>1. FileInv /\ [SnapshotNext]_snapshotVars => FileInv'
  <2> SUFFICES ASSUME FileInv, [SnapshotNext]_snapshotVars PROVE FileInv'
    OBVIOUS
  <2>1. CASE SnapshotNext
    BY <2>1, OpenStep, CmdTransferStep, TruncateStep, WriteStep, CmdCloseStep, KillStep DEF SnapshotNext
  <2>2. CASE UNCHANGED snapshotVars
    BY <2>2 DEF snapshotVars, FileInv, FileTypeInv, LineageInv, ClosesInv, SerialInv
  <2> QED BY <2>1, <2>2
<1> QED BY <1>1, FileInit, PTL DEF SnapshotSpec

\* persistence.py, cli.py: commands that do not overlap lose nothing they
\* reported.
THEOREM AckedStaysOnDisk == SnapshotSpec => []AckedOnDisk
<1>1. FileInv => AckedOnDisk
  BY DEF FileInv, SerialInv, AckedOnDisk
<1> QED BY <1>1, FileInvariance, PTL

\* cli.py: the commands never report two states under one version unless they
\* overlap, and a close pays out the whole channel as it was reported.
THEOREM ReportsAlwaysAgree == SnapshotSpec => []ReportsAgree
<1>1. FileInv => ReportsAgree
  BY DEF FileInv, SerialInv, ClosesInv, ReportsAgree
<1> QED BY <1>1, FileInvariance, PTL

\* persistence.py, load_channel: whatever overlaps or is killed, no command
\* builds on half a file.
THEOREM NeverTorn == SnapshotSpec => []NoTornState
<1>1. ASSUME FileInv PROVE NoTornState
  <2>1. \A d \in (acked \cup {mine[p] : p \in Commands}) \ {Missing} : d \in Documents
    BY <1>1 DEF FileInv, FileTypeInv
  <2>2. \A d \in Documents : Conserved(d.bal)
    BY DEF Documents, Balanced
  <2> QED BY <1>1, <2>1, <2>2 DEF FileInv, LineageInv, NoTornState
<1> QED BY <1>1, FileInvariance, PTL

-----------------------------------------------------------------------------
(***************************************************************************)
(* The registry's file.  No file means that no save ever completed.        *)
(***************************************************************************)
RegistryInv ==
    /\ records \in [Watched -> Nat] /\ saved \in [Watched -> Nat]
    /\ regFile = NoFile => saved = NoRecords
    /\ regFile \in {NoFile, Broken} \/ regFile = saved
    /\ (tower = "up" /\ ~failed) => records = saved

LEMMA RegistryStep == RegistryInv /\ [RegistryNext]_registryVars => RegistryInv'
<1> SUFFICES ASSUME RegistryInv, [RegistryNext]_registryVars PROVE RegistryInv'
  OBVIOUS
<1>0. NoRecords \in [Watched -> Nat]
  BY DEF NoRecords
<1>1. ASSUME NEW c \in Watched, NEW v \in RecordVersions, RegisterRecord(c, v)
      PROVE  RegistryInv'
  <2>1. v \in Nat
    BY RegistryAssumption
  <2> QED BY <1>1, <2>1 DEF RegisterRecord, RegistryInv
<1>2. CASE TruncateFile
  BY <1>2, RegistryAssumption DEF TruncateFile, RegistryInv
<1>3. CASE WriteFile
  BY <1>3, RegistryAssumption DEF WriteFile, Serialised, RegistryInv
<1>4. CASE SaveFails
  BY <1>4 DEF SaveFails, RegistryInv
<1>5. CASE StopTower
  BY <1>0, <1>5 DEF StopTower, RegistryInv
<1>6. CASE OpenRegistry
  BY <1>0, <1>6 DEF OpenRegistry, RegistryInv
<1>7. CASE UNCHANGED registryVars
  BY <1>7 DEF registryVars, RegistryInv
<1> QED BY <1>1, <1>2, <1>3, <1>4, <1>5, <1>6, <1>7 DEF RegistryNext

\* watchtower/registry.py: a tower that comes up watches every channel with
\* the state of the last save that completed.
THEOREM RegistryAlwaysReloads == RegistrySpec => []RegistryReloads
<1>1. RegistryInit => RegistryInv
  BY DEF RegistryInit, RegistryInv, NoRecords
<1>2. RegistryInv => RegistryReloads
  BY DEF RegistryInv, RegistryReloads
<1> QED BY <1>1, <1>2, RegistryStep, PTL DEF RegistrySpec
=============================================================================
