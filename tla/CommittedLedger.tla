---------------------------- MODULE CommittedLedger ----------------------------
(***************************************************************************)
(* What the channel manager and its store promise a client, without        *)
(* threads, locks, buffers or crashes: every channel has one committed     *)
(* state, which moves by one accepted transfer at a time and survives a    *)
(* restart unchanged, and a cooperative close settles exactly that state   *)
(* (docstrings of runtime/manager.py and store/store.py).  A commit of the *)
(* store may fail: from then on the store may lag behind what was applied, *)
(* one commit may carry several transfers, and a close may settle a state  *)
(* later than the committed one.  It still never goes back to an earlier   *)
(* state, and what it commits divides the same fund.                       *)
(***************************************************************************)
EXTENDS Accounting

CONSTANTS Channels

VARIABLES cbal, cver,   \* the committed state of each channel
          settled,      \* the version a close last settled, or -1
          degraded      \* a commit has failed

ledger == <<cbal, cver, settled, degraded>>

LedgerInit ==
    /\ cbal = [c \in Channels |-> InitialBalances]
    /\ cver = [c \in Channels |-> 0]
    /\ settled = [c \in Channels |-> -1]
    /\ degraded = FALSE

\* One transfer commits: the next version, by one legal move of micro-units.
CommitTransfer(c) ==
    /\ \E s, r \in Parties, d \in 0 .. MicroUnits :
         /\ TransferOK(cbal[c], s, r, d)
         /\ cbal' = [cbal EXCEPT ![c] = Transfer(@, s, r, d)]
    /\ cver' = [cver EXCEPT ![c] = @ + 1]
    /\ UNCHANGED <<settled, degraded>>

\* A close settles the committed state.
Settle(c) ==
    /\ settled' = [settled EXCEPT ![c] = cver[c]]
    /\ UNCHANGED <<cbal, cver, degraded>>

\* A commit fails: nothing changes for the client but the promises left.
Degrade ==
    /\ degraded' = TRUE
    /\ UNCHANGED <<cbal, cver, settled>>

\* Only channel c moves in the table f.
OnlyAt(f, g, c) == g = [f EXCEPT ![c] = g[c]]

\* One commit carries the transfers whose own commit failed as well.
CatchUp(c) ==
    /\ degraded
    /\ OnlyAt(cver, cver', c) /\ cver'[c] > cver[c]
    /\ OnlyAt(cbal, cbal', c) /\ cbal'[c] \in Allocations /\ Conserved(cbal'[c])
    /\ UNCHANGED <<settled, degraded>>

\* A close settles a state whose own commit failed.
SettleAhead(c) ==
    /\ degraded
    /\ OnlyAt(settled, settled', c) /\ settled'[c] > cver[c]
    /\ UNCHANGED <<cbal, cver, degraded>>

LedgerNext ==
    \/ \E c \in Channels : \/ CommitTransfer(c) \/ Settle(c)
                           \/ CatchUp(c) \/ SettleAhead(c)
    \/ Degrade

LedgerSpec == LedgerInit /\ [][LedgerNext]_ledger
=============================================================================
