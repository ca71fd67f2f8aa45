------------------------------ MODULE Accounting ------------------------------
(***************************************************************************)
(* Micro-unit accounting of one channel: src/src/channel/accounting.py,    *)
(* with the parameters of ChannelConfig (config.py).                       *)
(*                                                                         *)
(* N parties share S funded satoshis, each subdivided into K micro-units.  *)
(* An allocation gives every party a number of micro-units; quantise (the  *)
(* netting rule Q-star) turns it into whole satoshis at settlement.        *)
(***************************************************************************)
EXTENDS Integers, FiniteSets

CONSTANTS N,    \* number of participants
          K,    \* micro-units per satoshi
          S     \* funded satoshis under the channel output

ASSUME ConfigAssumption == /\ N \in Nat /\ N >= 2
                           /\ K \in Nat /\ K >= 1
                           /\ S \in Nat /\ S >= 1

Parties == 0 .. (N - 1)

\* k*S, the micro-units of the channel.
MicroUnits == K * S

\* What State.__post_init__ admits: one non-negative balance per party.
Allocations == [Parties -> Nat]

\* Sum of a vector over the parties, as a recursive function of the prefix.
Total(f) ==
    LET sum[i \in 0 .. N] == IF i = 0 THEN 0 ELSE sum[i - 1] + f[i - 1]
    IN  sum[N]

\* State.conservation_check
Conserved(b) == Total(b) = MicroUnits

\* initial_state: the funder (index 0) holds everything.
InitialBalances == [i \in Parties |-> IF i = 0 THEN MicroUnits ELSE 0]

\* The conditions under which transfer() does not raise.
NoBalanceCheck(b, s, r, d) == s # r /\ d >= 0
TransferOK(b, s, r, d) == s # r /\ d >= 0 /\ d <= b[s]

\* The balances transfer() returns.
Transfer(b, s, r, d) == [b EXCEPT ![s] = @ - d, ![r] = @ + d]

-----------------------------------------------------------------------------
(***************************************************************************)
(* quantise: Q-star, the largest-remainder rounding of an allocation.      *)
(***************************************************************************)

Floors(b) == [i \in Parties |-> b[i] \div K]
Leftover(b) == S - Total(Floors(b))

\* sorted(range(n), key=(-remainder, index)): i comes before j.
SmallestFirst(b, i, j) == \/ b[i] % K < b[j] % K
                          \/ b[i] % K = b[j] % K /\ i < j
Before(b, i, j) == \/ b[i] % K > b[j] % K
                   \/ b[i] % K = b[j] % K /\ i < j

\* The first R parties of that order receive one satoshi more.
FirstByIndex(b) == {i \in Parties : i < Leftover(b)}
Winners(b) == {i \in Parties : Cardinality({j \in Parties : Before(b, j, i)}) < Leftover(b)}

Quantise(b) == [i \in Parties |-> Floors(b)[i] + IF i \in Winners(b) THEN 1 ELSE 0]
=============================================================================
