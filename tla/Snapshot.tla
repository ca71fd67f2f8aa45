------------------------------- MODULE Snapshot -------------------------------
(***************************************************************************)
(* The channel file of the command line: persistence.py and the Part I     *)
(* commands of cli.py (open, transfer, close, contested).                  *)
(*                                                                         *)
(* Every command is a process of its own.  It loads the file, works on its *)
(* private Channel object, and transfer and open write the file back with  *)
(* Path.write_text: the file is truncated and then written in place, with  *)
(* no lock and no temporary file.  A process may be killed at any point    *)
(* (or its write may fail, which leaves the same file behind).             *)
(***************************************************************************)
EXTENDS Accounting, Sequences

CONSTANTS Commands,        \* command-line processes
          BondValues,           \* party -> satoshis of its bond
          Missing,         \* there is no file
          Empty,           \* the file is empty
          Torn,            \* the file holds part of a document, or parts of two
          MaxVersion,      \* bound: transfers of one channel
          MaxRuns,         \* bound: runs of open and transfer
          MaxKills,        \* bound: processes killed
          MaxCloses        \* bound: closes signed

ASSUME SnapshotAssumption ==
    /\ BondValues \in [Parties -> Nat \ {0}]
    /\ MaxVersion \in Nat /\ MaxRuns \in Nat
    /\ MaxKills \in Nat /\ MaxCloses \in Nat

VARIABLES file,      \* Missing, Empty, Torn, or the document save_channel wrote
          pc,        \* where each process is
          mine,      \* the process's Channel object
          runs, kills,   \* counted for the bounds
          acked,     \* history: documents whose command reported success
          latest,    \* history: the last of them
          closes,    \* history: closes signed, with the state they settle
          raced      \* history: the work of two commands overlapped

fileVars == <<file, pc, mine>>
snapshotVars == <<file, pc, mine, runs, kills, acked, latest, closes, raced>>

\* channel_to_dict: keys and funding transaction (here the channel's number, as
\* KeyBook.random makes every channel a different one) and the state.
ChannelToDict(ch, b, v) == [ch |-> ch, bal |-> b, ver |-> v]

SnapshotInit ==
    /\ file = Missing
    /\ pc = [p \in Commands |-> "idle"]
    /\ mine = [p \in Commands |-> Missing]
    /\ runs = 0 /\ kills = 0
    /\ acked = {} /\ latest = Missing /\ closes = {} /\ raced = FALSE

-----------------------------------------------------------------------------
\* load_channel raises PersistenceError on a file that is missing or does not
\* parse; dict_to_channel checks the conservation of what it read.
Loads(d) == d \notin {Missing, Empty, Torn} /\ Conserved(d.bal)

\* Somebody else has an unsaved copy.
Busy(p) == \E q \in Commands \ {p} : pc[q] # "idle"

\* The process has a Channel object to save.
Holds(p, d) ==
    /\ pc' = [pc EXCEPT ![p] = "truncate"]
    /\ mine' = [mine EXCEPT ![p] = d]
    /\ runs < MaxRuns /\ runs' = runs + 1
    /\ raced' = (raced \/ Busy(p))
    /\ UNCHANGED <<file, kills, acked, latest, closes>>

\* cmd_open: a new channel with random keys, confirmed at once; what is in the
\* file already is not looked at.
CmdOpen(p) ==
    /\ pc[p] = "idle"
    /\ Holds(p, ChannelToDict(runs + 1, InitialBalances, 0))

\* Results of apply_sequence with no, one or two transfers.
CreditOnly(b) ==
    {[b EXCEPT ![t[1]] = @ + t[2]] : t \in Parties \X (0 .. MicroUnits)}
OneTransfer(b) ==
    {Transfer(b, t[1], t[2], t[3]) : t \in
        {x \in Parties \X Parties \X (0 .. MicroUnits) : TransferOK(b, x[1], x[2], x[3])}}
SameVersion(d) == {[d EXCEPT !.bal = b] : b \in OneTransfer(d.bal)}
Applied(d) ==
    {d} \cup {[d EXCEPT !.bal = b, !.ver = @ + 1] : b \in OneTransfer(d.bal)}
        \cup {[d EXCEPT !.bal = b, !.ver = @ + 2] : b \in UNION {OneTransfer(x) : x \in OneTransfer(d.bal)}}

\* cmd_transfer up to apply_sequence; a sequence with a bad transfer raises and
\* leaves everything as it was.
ForgetsToSave(p) ==
    /\ pc[p] = "idle" /\ Loads(file) /\ runs < MaxRuns
    /\ runs' = runs + 1
    /\ \E d \in Applied(file) :
         d.ver <= MaxVersion /\ acked' = acked \cup {d} /\ latest' = d
    /\ UNCHANGED <<fileVars, kills, closes, raced>>
CmdTransfer(p) ==
    /\ pc[p] = "idle" /\ Loads(file)
    /\ \E d \in Applied(file) : d.ver <= MaxVersion /\ Holds(p, d)

\* save_channel: write_text opens the file for writing, which empties it ...
Truncate(p) ==
    /\ pc[p] = "truncate"
    /\ pc' = [pc EXCEPT ![p] = "write"]
    /\ file' = Empty
    /\ UNCHANGED <<mine, runs, kills, acked, latest, closes, raced>>

\* ... and writes from its start.  Over what another process wrote meanwhile
\* the shorter text leaves the end of the longer one behind.  The command then
\* reports success.
WriteOutcomes(p) == {mine[p]} \cup (IF file = Empty THEN {} ELSE {Torn})
Write(p) ==
    /\ pc[p] = "write"
    /\ file' \in WriteOutcomes(p)
    /\ pc' = [pc EXCEPT ![p] = "idle"]
    /\ mine' = [mine EXCEPT ![p] = Missing]
    /\ acked' = acked \cup {mine[p]}
    /\ latest' = mine[p]
    /\ UNCHANGED <<runs, kills, closes, raced>>

\* cmd_close: signs and prints the close of the loaded state.  It saves
\* nothing: the channel is not sealed.  (cmd_contested loads and prints a
\* forfeiture; it depends on no balance and changes nothing.)
CmdClosePays(d) == [i \in Parties |-> Quantise(d.bal)[i] + BondValues[i]]
CmdClose(p) ==
    /\ pc[p] = "idle" /\ Loads(file) /\ Cardinality(closes) < MaxCloses
    /\ closes' = closes \cup {[ch |-> file.ch, ver |-> file.ver, pays |-> CmdClosePays(file)]}
    /\ UNCHANGED <<fileVars, runs, kills, acked, latest, raced>>

\* The process is killed; a text that was being written may be there in part.
Kill(p) ==
    /\ pc[p] # "idle" /\ kills < MaxKills
    /\ kills' = kills + 1
    /\ pc' = [pc EXCEPT ![p] = "idle"]
    /\ mine' = [mine EXCEPT ![p] = Missing]
    /\ file' \in {file} \cup (IF pc[p] = "write" THEN {Torn} ELSE {})
    /\ UNCHANGED <<runs, acked, latest, closes, raced>>

SnapshotNext == \E p \in Commands :
    CmdOpen(p) \/ CmdTransfer(p) \/ Truncate(p) \/ Write(p) \/ CmdClose(p) \/ Kill(p)

SnapshotSpec == SnapshotInit /\ [][SnapshotNext]_snapshotVars

-----------------------------------------------------------------------------
\* Commands that do not overlap lose nothing they reported: outside a save the
\* file is the last acknowledged document, unless a save was cut off, and then
\* the file does not load at all.  It never loads as an older state.
AckedOnDisk ==
    (~raced /\ \A p \in Commands : pc[p] # "write") => file \in {latest, Empty, Torn}

\* What the commands report of a channel agrees.  Commands that do not overlap
\* never report two states under one version (a version is signed as the
\* sequence of a state transaction, and two states of equal sequence do not
\* supersede each other); and, overlapping or not, a close pays out the whole
\* channel as it was reported for the version it settles.
ReportsAgree ==
    /\ ~raced => \A d, e \in acked : (d.ch = e.ch /\ d.ver = e.ver) => d.bal = e.bal
    /\ \A c \in closes :
         /\ Total(c.pays) = S + Total(BondValues)
         /\ \E d \in acked : d.ch = c.ch /\ d.ver = c.ver /\ c.pays = CmdClosePays(d)

\* Whatever overlaps or is killed, a command never builds on half a file: a
\* state that was reported, or is about to be saved, conserves the channel, and
\* its version is reached from a reported one by at most a command's transfers.
NoTornState ==
    \A d \in (acked \cup {mine[p] : p \in Commands}) \ {Missing} :
        /\ Conserved(d.bal)
        /\ d.ver = 0 \/ \E e \in acked : e.ch = d.ch /\ d.ver - e.ver \in 0 .. 2
=============================================================================
