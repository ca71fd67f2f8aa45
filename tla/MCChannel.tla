------------------------------- MODULE MCChannel -------------------------------
(***************************************************************************)
(* A channel object, the file the command line keeps a channel in, and a   *)
(* tower's registry file.  They belong to different processes and do not   *)
(* interact, so a behaviour is about one of them.                          *)
(***************************************************************************)
EXTENDS Channel, Snapshot, RegistryFile, TLC

CONSTANTS p1, p2

\* Unequal, so that a forfeiture has a remainder.
MCBonds == [p \in Parties |-> IF p = 0 THEN 3 ELSE 2]
MCSymmetry == Permutations({p1, p2})

ObjectIdle == past = { <<1, 0, InitialBalances>> } /\ signed = {} /\ ~chans[1].conf
FileIdle == runs = 0
RegistryIdle == saves = 0 /\ stops = 0

PartsInit == Init /\ SnapshotInit /\ RegistryInit
PartsNext ==
    \/ FileIdle /\ RegistryIdle /\ Next /\ UNCHANGED <<snapshotVars, registryVars>>
    \/ ObjectIdle /\ RegistryIdle /\ SnapshotNext /\ UNCHANGED <<vars, registryVars>>
    \/ ObjectIdle /\ FileIdle /\ RegistryNext /\ UNCHANGED <<vars, snapshotVars>>
PartsSpec == PartsInit /\ [][PartsNext]_<<vars, snapshotVars, registryVars>>
=============================================================================
