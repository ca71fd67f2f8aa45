------------------------------ MODULE Algorithms ------------------------------
(***************************************************************************)
(* The pure algorithms, each run on its bounded inputs and checked against *)
(* a reference: the accounting of a channel through all of its             *)
(* allocations, the wire encoding, the scripts.  They share no state; a    *)
(* behaviour is about one of them and leaves the others at rest.           *)
(***************************************************************************)
EXTENDS Accounting, Wire, Scripts

VARIABLES subject,   \* the algorithm this behaviour is about
          alloc      \* the balances of the channel

algorithmVars == <<subject, alloc, wireVars, scriptVars>>

WireAtRest ==
    /\ sent = << >> /\ line = << >> /\ buf = << >> /\ got = << >> /\ closed = FALSE
    /\ fault = [kind |-> "rest", at |-> 0, byte |-> 0]
ScriptsAtRest ==
    path = "p2pkh" /\ size = 2 /\ owner = 1 /\ preimage = 1 /\ book = <<1, 2>> /\ sigs = << >>

AlgorithmsInit ==
    /\ alloc = InitialBalances
    /\ \/ subject = "balances" /\ WireAtRest /\ ScriptsAtRest
       \/ subject = "wire" /\ WireInit /\ ScriptsAtRest
       \/ subject = "script" /\ WireAtRest /\ ScriptsInit

ApplyTransfer(s, r, d) ==
    /\ TransferOK(alloc, s, r, d)
    /\ alloc' = Transfer(alloc, s, r, d)
    /\ UNCHANGED <<subject, wireVars, scriptVars>>

AlgorithmsNext ==
    \/ subject = "balances" /\ \E s, r \in Parties, d \in 0 .. MicroUnits : ApplyTransfer(s, r, d)
    \/ subject = "wire" /\ WireNext /\ UNCHANGED <<subject, alloc, scriptVars>>
    \/ subject = "script" /\ ScriptsNext /\ UNCHANGED <<subject, alloc, wireVars>>

AlgorithmsSpec == AlgorithmsInit /\ [][AlgorithmsNext]_algorithmVars

-----------------------------------------------------------------------------
Abs(x) == IF x < 0 THEN -x ELSE x
Deviation(q, b) == Total([p \in Parties |-> Abs(q[p] * K - b[p])])

\* Whatever the transfers, the balances are conserved and Q-star settles them:
\* the payouts sum to S with 0 <= R < n, each is less than one satoshi away from
\* the party's share, and no whole-satoshi split of S is closer in total.
QuantiseSettles ==
    LET q == Quantise(alloc) IN
    /\ Conserved(alloc)
    /\ Leftover(alloc) \in 0 .. N - 1
    /\ Total(q) = S
    /\ \A p \in Parties : Abs(q[p] * K - alloc[p]) < K
    /\ \A x \in [Parties -> 0 .. S] : Total(x) = S => Deviation(q, alloc) <= Deviation(x, alloc)

\* A transfer never pays its sender more at settlement, nor its recipient less,
\* and moves nobody else's payout by more than a satoshi.
TransferIsFair ==
    [][\A s, r \in Parties, d \in 0 .. MicroUnits :
        (TransferOK(alloc, s, r, d) /\ alloc' = Transfer(alloc, s, r, d)) =>
            LET q == Quantise(alloc)  n == Quantise(alloc') IN
            /\ n[s] <= q[s] /\ n[r] >= q[r]
            /\ \A p \in Parties \ {s, r} : Abs(n[p] - q[p]) <= 1]_algorithmVars
=============================================================================
