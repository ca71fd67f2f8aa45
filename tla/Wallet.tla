--------------------------------- MODULE Wallet ---------------------------------
(***************************************************************************)
(* Wallets on the embedded node: wallet/utxo.py (scripts and UTXO view),   *)
(* builder.py (coin selection, fee, change, channel funding), send.py and  *)
(* manage.py.  Several wallets pay each other, fund channels and are paid  *)
(* the coinbases of generated blocks.                                      *)
(*                                                                         *)
(* A coin is a row of the utxos table with the address that owns it.  The  *)
(* node is reduced to what Mempool.tla and Node.tla establish: every       *)
(* wallet transaction is final, so the pool refuses one that shares an     *)
(* input with an entry; a block takes the pool in order of admission.  The *)
(* fee is that of the estimated size at one satoshi per byte; sizes and    *)
(* amounts are scaled down together.  Signatures are deterministic: equal  *)
(* inputs and outputs make the same transaction.                           *)
(***************************************************************************)
EXTENDS Integers, FiniteSets, Sequences, SequencesExt

CONSTANTS Wallets,
          Keys,            \* derivation indices
          ChannelOwner,    \* the owner of the outputs of a funding transaction
          Amounts,         \* amounts paid
          ChannelOutputs,  \* values of build_channel_outputs: S, b_1 .. b_n
          Reward,          \* EmbeddedNode.coinbase_reward
          Headroom,        \* what a caller of select_utxos adds for the fee
          BaseSize, InputSize, OutputSize,
          Dust,            \* DEFAULT_DUST_THRESHOLD
          MaxBlocks,       \* bound: blocks generated
          MaxSends         \* bound: sends that reported success

ASSUME WalletAssumption ==
    /\ ChannelOwner \notin Wallets
    /\ Amounts \subseteq Nat \ {0} /\ ChannelOutputs \in Seq(Nat \ {0})
    /\ Reward \in Nat \ {0} /\ Dust \in Nat \ {0}
    /\ {Headroom, BaseSize, InputSize, OutputSize, MaxBlocks, MaxSends} \subseteq Nat

VARIABLES scripts,   \* WalletScripts.by_script: the keys each wallet has derived
          utxo,      \* the utxos table
          pool,      \* Mempool.entries, in order of admission
          height, created,   \* blocks generated, coins numbered so far
          due,       \* history: what every owner is due by the SendResults
          sends,     \* history: SendResults with accepted = True
          repeated   \* history: was one of them "already in mempool"?

chain == <<utxo, height, created>>
vars == <<scripts, chain, pool, due, sends, repeated>>

Owners == Wallets \cup {ChannelOwner}
Addresses == [who : Owners, key : Keys]

Init ==
    /\ scripts = [w \in Wallets |-> {}]
    /\ utxo = {} /\ height = 0 /\ created = 0
    /\ pool = <<>>
    /\ due = [p \in Owners |-> 0]
    /\ sends = 0 /\ repeated = FALSE

-----------------------------------------------------------------------------
Value(coins) == SumFunction([c \in coins |-> c.value])
Sum(outs) == SumFunction([i \in DOMAIN outs |-> outs[i].value])

\* WalletUtxoView.refresh: the confirmed coins of the wallet's scripts, whether
\* or not a pool transaction already spends them.
View(w) == {c \in utxo : c.owner.who = w /\ c.owner.key \in scripts[w]}

\* select_utxos: largest first, up to the first coin that reaches the target;
\* none if all of them do not.  Which of two equal coins comes first is left open.
SelectUtxos(coins, target) ==
    {sel \in SUBSET coins :
        /\ Value(sel) >= target
        /\ \A c \in sel : Value(sel) - c.value < target
        /\ \A c \in sel, d \in coins \ sel : c.value >= d.value}

\* The estimated fee: the outputs and a change output, every input signed.
Fee(sel, outs) ==
    BaseSize + InputSize * Cardinality(sel) + OutputSize * (Len(outs) + 1)

Change(sel, outs) == Value(sel) - Sum(outs) - Fee(sel, outs)

\* build_and_sign_payment and build_channel_funding_tx: change below the dust
\* threshold is left to the fee.
BuildAndSign(sel, outs, change) ==
    [ins |-> sel,
     outs |-> outs \o IF Change(sel, outs) < Dust THEN <<>>
                      ELSE << [value |-> Change(sel, outs), owner |-> change] >>]

-----------------------------------------------------------------------------
\* WalletManager.new_receive_address
NewReceiveAddress(w, k) ==
    /\ k \notin scripts[w]
    /\ scripts' = [scripts EXCEPT ![w] = @ \cup {k}]
    /\ UNCHANGED <<chain, pool, due, sends, repeated>>

AddressesOf(w) == {a \in Addresses : a.who = w /\ a.key \in scripts[w]}

\* admit, for final transactions whose inputs are confirmed.
Unchecked(tx) == TRUE
Conflictless(tx) == \A e \in ToSet(pool) : e.ins \cap tx.ins = {}

\* submit_tx and the SendResult: accepted when admitted now, and accepted too
\* when the same transaction is in the pool already.
Submit(w, payee, tx, amount) ==
    LET known == tx \in ToSet(pool)
        fee   == Value(tx.ins) - Sum(tx.outs)
    IN  /\ sends < MaxSends
        /\ known \/ Conflictless(tx)
        /\ pool' = IF known THEN pool ELSE Append(pool, tx)
        /\ sends' = sends + 1
        /\ repeated' = (repeated \/ known)
        /\ due' = [due EXCEPT ![w] = @ - amount - fee, ![payee] = @ + amount]
        /\ UNCHANGED <<scripts, chain>>

\* Select, build, sign, submit.  A wallet without the funds raises, and a pool
\* conflict is reported: neither changes anything.
Send(w, payee, outs) ==
    \E sel \in SelectUtxos(View(w), Sum(outs) + Headroom), change \in AddressesOf(w) :
        /\ Change(sel, outs) >= 0
        /\ Submit(w, payee, BuildAndSign(sel, outs, change), Sum(outs))

\* pay_p2pkh
PayP2pkh(w, to, amount) ==
    Send(w, to.who, << [value |-> amount, owner |-> to] >>)

\* The wallet funds a channel: the channel output and the bonds.
FundChannel(w) ==
    LET address == [who |-> ChannelOwner, key |-> CHOOSE k \in Keys : TRUE]
    IN  Send(w, ChannelOwner, [i \in DOMAIN ChannelOutputs |->
                            [value |-> ChannelOutputs[i], owner |-> address]])

\* generate_block, with or without the pool; the coinbase takes the fees.
CoinbaseWithoutFees(txs) == Reward
CoinbaseValue(txs) ==
    Reward + SumFunction([i \in DOMAIN txs |-> Value(txs[i].ins) - Sum(txs[i].outs)])
GenerateBlock(payout, include) ==
    LET txs  == IF include THEN pool ELSE <<>>
        outs == << [value |-> CoinbaseValue(txs), owner |-> payout] >>
                \o FlattenSeq([i \in DOMAIN txs |-> txs[i].outs])
    IN  /\ height < MaxBlocks
        /\ height' = height + 1
        /\ created' = created + Len(outs)
        /\ utxo' = (utxo \ UNION {txs[i].ins : i \in DOMAIN txs}) \cup
                   {[id |-> created + i, value |-> outs[i].value, owner |-> outs[i].owner] :
                        i \in DOMAIN outs}
        /\ pool' = IF include THEN <<>> ELSE pool
        /\ due' = [due EXCEPT ![payout.who] = @ + outs[1].value]
        /\ UNCHANGED <<scripts, sends, repeated>>

Next ==
    \E w \in Wallets :
        \/ \E k \in Keys : NewReceiveAddress(w, k)
        \/ \E v \in Wallets \ {w} : \E to \in AddressesOf(v), amount \in Amounts :
               PayP2pkh(w, to, amount)
        \/ FundChannel(w)
        \/ \E payout \in AddressesOf(w), include \in BOOLEAN :
               GenerateBlock(payout, include)

Spec == Init /\ [][Next]_vars

-----------------------------------------------------------------------------
\* Fees are moved to the coinbase and nothing else is: the coins add up to the
\* rewards of the blocks generated, and none of them is empty.
SupplyConserved == Value(utxo) = Reward * height /\ \A c \in utxo : c.value > 0

Confirmed(p) == Value(IF p = ChannelOwner THEN {c \in utxo : c.owner.who = ChannelOwner} ELSE View(p))
Paid(p, outs) ==
    SumFunction([i \in {i \in DOMAIN outs : outs[i].owner.who = p} |-> outs[i].value])
Pending(p) ==
    SumFunction([i \in DOMAIN pool |->
        Paid(p, pool[i].outs) - Value({c \in pool[i].ins : c.owner.who = p})])
BooksOf(p) == Confirmed(p) + Pending(p) = due[p]

\* Every owner's confirmed balance, corrected by what the pool will do to it, is
\* what the SendResults say: no payment is lost, paid twice or paid out of other
\* coins, and change comes back where the wallet sees it.  It holds as long as
\* no result was "already in mempool".
BooksMatch == ~repeated => \A p \in Owners : BooksOf(p)
=============================================================================
