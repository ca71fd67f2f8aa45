-------------------------------- MODULE Channel --------------------------------
(***************************************************************************)
(* A channel object and the transactions it signs: lifecycle.py, bond.py.  *)
(*                                                                         *)
(* chans is the channel and, after refresh_channel, its successors.  A     *)
(* signed transaction is abstracted to what settlement depends on: the     *)
(* funding transaction whose outputs it spends, the nSequence of the       *)
(* channel input, the value it consumes and what it pays to whom.  A state *)
(* transaction also remembers the state it was built from (of): channel    *)
(* object, version and balances.                                           *)
(***************************************************************************)
EXTENDS Accounting, SequencesExt

CONSTANTS Bonds,            \* party -> satoshis of its bond
          Fees,             \* tower fees offered to forfeit_bond_tx
          FinalSequence,    \* 0xFFFFFFFF
          MaxHistory,       \* bound: states held by all channels together
          MaxSigned,        \* bound: signatures
          MaxRefresh        \* bound: refresh_channel calls

ASSUME ChannelAssumption ==
    /\ Bonds \in [Parties -> Nat \ {0}]
    /\ Fees \subseteq Nat
    /\ FinalSequence \in Nat
    /\ MaxHistory \in Nat /\ MaxSigned \in Nat /\ MaxRefresh \in Nat

VARIABLES chans,    \* the channel and its successors: fund, bal, ver, conf
          signed,   \* transactions signed so far
          past      \* history: <<channel, version, balances>> ever held

vars == <<chans, signed, past>>

\* Channel.open with the placeholder parent: the funding transaction depends on
\* the keys and the amounts only, and this channel's is number 0.
Init ==
    /\ chans = << [fund |-> 0, bal |-> InitialBalances, ver |-> 0, conf |-> FALSE] >>
    /\ signed = {}
    /\ past = { <<1, 0, InitialBalances>> }

-----------------------------------------------------------------------------
\* Channel.state becomes <<b, v>>.
Assign(i, b, v) ==
    /\ Cardinality(past) < MaxHistory
    /\ chans' = [chans EXCEPT ![i].bal = b, ![i].ver = v]
    /\ past' = past \cup { <<i, v, b>> }
    /\ UNCHANGED signed

ApplyTransfer(i) ==
    \E s, r \in Parties, d \in 0 .. MicroUnits :
        /\ TransferOK(chans[i].bal, s, r, d)
        /\ Assign(i, Transfer(chans[i].bal, s, r, d), chans[i].ver + 1)

\* apply_sequence, for two transfers: both apply or, if one raises, none does.
ApplySequence(i) ==
    \E s1, r1, s2, r2 \in Parties, d1, d2 \in 1 .. MicroUnits :
        LET b == Transfer(chans[i].bal, s1, r1, d1) IN
        /\ TransferOK(chans[i].bal, s1, r1, d1)
        /\ TransferOK(b, s2, r2, d2)
        /\ Assign(i, Transfer(b, s2, r2, d2), chans[i].ver + 2)

MarkConfirmed(i) ==
    /\ ~chans[i].conf
    /\ chans' = [chans EXCEPT ![i].conf = TRUE]
    /\ UNCHANGED <<signed, past>>

\* A signature is made only after the funding transaction confirmed.
Sign(i, tx) ==
    /\ chans[i].conf
    /\ Cardinality(signed) < MaxSigned
    /\ signed' = signed \cup {tx}
    /\ UNCHANGED <<chans, past>>

\* sequence_for_version raises when the sequence space is exhausted.
SequenceUpToFinal(v) == v <= FinalSequence
SequenceOK(v) == v < FinalSequence

EveryOtherVersion(i, v, b) ==
    [kind |-> "state", fund |-> chans[i].fund, seq |-> v \div 2, spends |-> S,
     pays |-> Quantise(b), fee |-> 0, of |-> <<i, v, b>>]
StateTx(i, v, b) ==
    [kind |-> "state", fund |-> chans[i].fund, seq |-> v, spends |-> S,
     pays |-> Quantise(b), fee |-> 0, of |-> <<i, v, b>>]

\* What a caller may pass: any balances that survive conservation_check, which
\* quantise repeats, under any version (those above FinalSequence are refused as
\* that is).  Neither is compared with the channel's own.
Passed == {b \in [Parties -> 0 .. MicroUnits] : Conserved(b)}
Versions == 0 .. FinalSequence

\* sign_state_tx of the state the caller passes.
SignState(i) ==
    \E b \in Passed, v \in Versions : SequenceOK(v) /\ Sign(i, StateTx(i, v, b))

\* superseded_state_tx_for: the channel's state is swapped for a state of the
\* caller's, that is signed, and the channel's own is put back.
SupersededStateTxFor(i) ==
    \E b \in Passed, v \in Versions : SequenceOK(v) /\ Sign(i, StateTx(i, v, b))

\* build_close_tx: channel output and all bonds, every input final.
ClosePays(b) == [p \in Parties |-> Quantise(b)[p] + Bonds[p]]

\* cooperative_close of the current state, or of the one the caller passes.
CooperativeClose(i) ==
    \E b \in Passed :
        Sign(i, [kind |-> "close", fund |-> chans[i].fund, seq |-> FinalSequence,
                 spends |-> S + Total(Bonds), pays |-> ClosePays(b), fee |-> 0])

\* forfeit_bond_tx: the tower fee first, the rest in equal shares, what the
\* division leaves over to the last honest party.
LastHonest(off) == IF off = N - 1 THEN N - 2 ELSE N - 1
EqualShares(off, rest) ==
    [p \in Parties |-> IF p = off THEN 0 ELSE rest \div (N - 1)]
ForfeitPays(off, rest) ==
    LET share == rest \div (N - 1) IN
    [p \in Parties |-> IF p = off THEN 0
                       ELSE IF p = LastHonest(off) THEN share + (rest - share * (N - 1))
                       ELSE share]

ForfeitBond(i) ==
    \E off \in Parties, fee \in Fees, tower \in BOOLEAN :
        LET paid == IF tower THEN fee ELSE 0 IN
        /\ fee <= Bonds[off]
        /\ Sign(i, [kind |-> "forfeit", fund |-> chans[i].fund, seq |-> FinalSequence,
                    spends |-> Bonds[off], pays |-> ForfeitPays(off, Bonds[off] - paid),
                    fee |-> paid])

\* refresh_channel: Channel.open with the same keys and amounts, hence the same
\* funding transaction; confirmed at once; version 0 with the carried balances.
SuccessorFund(i) == chans[i].fund
Refresh(i) ==
    /\ Len(chans) <= MaxRefresh /\ Cardinality(past) < MaxHistory
    /\ i = Len(chans)
    /\ chans' = Append(chans, [fund |-> SuccessorFund(i), bal |-> chans[i].bal,
                               ver |-> 0, conf |-> TRUE])
    /\ past' = past \cup { <<Len(chans) + 1, 0, chans[i].bal>> }
    /\ UNCHANGED signed

Next == \E i \in 1 .. Len(chans) :
    \/ ApplyTransfer(i) \/ ApplySequence(i) \/ MarkConfirmed(i)
    \/ SignState(i) \/ SupersededStateTxFor(i) \/ CooperativeClose(i)
    \/ ForfeitBond(i) \/ Refresh(i)

Spec == Init /\ [][Next]_vars

-----------------------------------------------------------------------------
\* Every signed transaction pays out exactly what it spends: settlement neither
\* mints nor loses a satoshi, on the state, close and forfeiture paths alike.
SignedIsBalanced == \A tx \in signed : Total(tx.pays) + tx.fee = tx.spends

\* Under the replacement rule a close overtakes every state of its channel.
CloseOutbidsStates ==
    \A c, s \in signed : (c.kind = "close" /\ s.kind = "state" /\ c.fund = s.fund)
        => c.seq > s.seq

\* State transactions of states their channel object has held.  The callers may
\* have others signed (Passed), of which nothing is promised.
HeldStates == {tx \in signed : tx.kind = "state" /\ tx.of \in past}

\* Of the states a channel object has held, each of a higher version supersedes
\* each of a lower one, and no two with different payouts tie, however often
\* and in whatever order they are signed.
SequenceIdentifiesState ==
    \A x, y \in HeldStates : x.of[1] = y.of[1] =>
        /\ x.of[2] > y.of[2] => x.seq > y.seq
        /\ x.seq = y.seq => x.pays = y.pays

\* refresh_channel resets the version because "refresh is a fresh channel funded
\* by the cooperative close of the predecessor": no state of a predecessor with
\* another payout could then compete with a successor's for the same output.
\* (SuccessorFund is not so funded, and the reset version does not outrank it.)
LaterStateSupersedes ==
    \A x, y \in HeldStates :
        (x.of[1] > y.of[1] /\ x.fund = y.fund) => x.seq > y.seq \/ x.pays = y.pays
=============================================================================
