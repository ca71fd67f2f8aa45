-------------------------------- MODULE Routing --------------------------------
(***************************************************************************)
(* A multi-hop payment: routing.py, with the hop script's two branches     *)
(* (scripts.py).  Hop j is paid by node j to node j + 1 and is spent by    *)
(* the payee with the secret (claim, sequence final) or by the payer       *)
(* (return, sequence 0, nLockTime L_j).                                    *)
(*                                                                         *)
(* The chain and the pool are external to routing.py.  The pool follows    *)
(* the rule of node/mempool.py: a claim replaces a return, never the other *)
(* way round.  A transaction in the pool is mined within Delta blocks, the *)
(* "worst-case confirmation bound".  The nodes follow the protocol: a      *)
(* payer broadcasts its return as soon as its horizon is reached, a node   *)
(* that sees its outgoing hop claimed claims its incoming hop at most      *)
(* React blocks later.  The sink reveals the secret whenever it likes.     *)
(***************************************************************************)
EXTENDS Integers, FiniteSets

CONSTANTS Length,            \* number of hops
          L0, Delta,
          React,             \* blocks an intermediary needs to respond
          MaxHeight          \* bound: blocks mined

\* build_path rejects a path with Length * Delta >= L0.
ASSUME RoutingAssumption ==
    /\ Length \in Nat \ {0} /\ L0 \in Nat /\ Delta \in Nat \ {0}
    /\ Length * Delta < L0
    /\ React \in Nat /\ React < Delta
    /\ MaxHeight \in Nat

Hops == 0 .. (Length - 1)

VARIABLES height,   \* blocks mined since the path was set up
          hop,      \* each hop's output: open, or spent by a mined claim or return
          pool,     \* the unconfirmed spend of it
          since,    \* height at which that spend entered the pool
          seen      \* height at which a claim of the hop was first visible, or -1

routingVars == <<height, hop, pool, since, seen>>

TypeOK ==
    /\ height \in 0 .. MaxHeight
    /\ hop \in [Hops -> {"open", "claimed", "returned"}]
    /\ pool \in [Hops -> {"none", "claim", "return"}]
    /\ since \in [Hops -> 0 .. MaxHeight]
    /\ seen \in [Hops -> -1 .. MaxHeight]

RoutingInit ==
    /\ height = 0
    /\ hop = [j \in Hops |-> "open"]
    /\ pool = [j \in Hops |-> "none"]
    /\ since = [j \in Hops |-> 0]
    /\ seen = [j \in Hops |-> -1]

\* build_path: the horizons strictly decrease along the path.
ShortStagger(j) == L0 - j * (Delta - 1)
Locktime(j) == L0 - j * Delta

\* build_claim_tx, broadcast: it replaces a pending return.
BroadcastClaim(j) ==
    /\ hop[j] = "open" /\ pool[j] # "claim"
    /\ pool' = [pool EXCEPT ![j] = "claim"]
    /\ since' = [since EXCEPT ![j] = height]
    /\ seen' = [seen EXCEPT ![j] = height]
    /\ UNCHANGED <<height, hop>>

SinkClaims == BroadcastClaim(Length - 1)

\* Node j claims its incoming hop with the secret from its outgoing one.
Learned(j) == seen[j] # -1
IntermediaryClaims(j) == j > 0 /\ Learned(j) /\ BroadcastClaim(j - 1)

\* build_return_tx, broadcast: acceptable once the horizon is reached.
IgnoresLocktime(j) == TRUE
NotYetAtHorizon(j) == height > Locktime(j)
ReturnValid(j) == height >= Locktime(j)
BroadcastReturn(j) ==
    /\ hop[j] = "open" /\ pool[j] = "none"
    /\ ReturnValid(j)
    /\ pool' = [pool EXCEPT ![j] = "return"]
    /\ since' = [since EXCEPT ![j] = height]
    /\ UNCHANGED <<height, hop, seen>>

\* What the nodes owe before the next block.
ReturnDue(j) == hop[j] = "open" /\ pool[j] = "none" /\ height >= Locktime(j)
ClaimDue(j) == /\ j > 0 /\ Learned(j) /\ height >= seen[j] + React
               /\ hop[j - 1] = "open" /\ pool[j - 1] # "claim"

\* The next block: it confirms some of the pool, and all that waited Delta.
MustConfirm(j) == pool[j] # "none" /\ height + 1 >= since[j] + Delta
MineBlock ==
    /\ height < MaxHeight
    /\ \A j \in Hops : ~ReturnDue(j) /\ ~ClaimDue(j)
    /\ \E mined \in SUBSET {j \in Hops : pool[j] # "none"} :
         /\ {j \in Hops : MustConfirm(j)} \subseteq mined
         /\ hop' = [j \in Hops |-> IF j \notin mined THEN hop[j]
                                   ELSE IF pool[j] = "claim" THEN "claimed" ELSE "returned"]
         /\ pool' = [j \in Hops |-> IF j \in mined THEN "none" ELSE pool[j]]
    /\ height' = height + 1
    /\ UNCHANGED <<since, seen>>

RoutingNext ==
    \/ SinkClaims
    \/ \E j \in Hops : IntermediaryClaims(j) \/ BroadcastReturn(j)
    \/ MineBlock

RoutingSpec == RoutingInit /\ [][RoutingNext]_routingVars

\* Blocks keep coming, and the nodes do what they owe.
FairRoutingSpec ==
    /\ RoutingSpec
    /\ WF_routingVars(MineBlock)
    /\ \A j \in Hops : WF_routingVars(IntermediaryClaims(j)) /\ WF_routingVars(BroadcastReturn(j))

-----------------------------------------------------------------------------
\* "each intermediary's outgoing return precedes its incoming return": no node
\* loses its incoming hop while its outgoing hop is still open or was claimed.
OutgoingSettlesFirst ==
    \A j \in Hops \ {0} : hop[j - 1] = "returned" => hop[j] = "returned"

\* The payment is atomic: once every hop is spent, all were claimed or all
\* were returned.
AllOrNothing ==
    (\A j \in Hops : hop[j] # "open") =>
        \E outcome \in {"claimed", "returned"} : \A j \in Hops : hop[j] = outcome

\* Every hop is eventually spent.
PathSettles == <>(\A j \in Hops : hop[j] # "open")
=============================================================================
