----------------------------- MODULE RegistryFile -----------------------------
(***************************************************************************)
(* The file behind a tower's registry: watchtower/registry.py.             *)
(*                                                                         *)
(* register and update change the records in memory and rewrite the whole  *)
(* file in place; Registry.open loads it when the tower's process starts.  *)
(* The process may be killed at any point, and a write may fail: then the  *)
(* caller gets the exception, and memory keeps the record.  A record is    *)
(* the version of the state transaction it holds, 0 where there is none.   *)
(***************************************************************************)
EXTENDS Integers

CONSTANTS Watched,         \* channel ids
          NoFile,         \* there is no file
          Broken,          \* the file is empty or cut off: it is no JSON
          RecordVersions,  \* versions registered
          MaxSaves,        \* bound: calls of register and update
          MaxStops         \* bound: kills of the process

ASSUME RegistryAssumption ==
    /\ RecordVersions \subseteq Nat \ {0} /\ MaxSaves \in Nat /\ MaxStops \in Nat
    /\ NoFile # Broken /\ NoFile \notin [Watched -> Nat]

VARIABLES tower,      \* the tower's process: up, saving (two steps), or down
          records,    \* Registry.records
          regFile,    \* NoFile, Broken, or the records _save wrote
          saved,      \* history: the records of the last completed save
          failed,     \* history: no save has completed since one failed
          saves, stops    \* counted for the bounds

registryVars == <<tower, records, regFile, saved, failed, saves, stops>>

NoRecords == [c \in Watched |-> 0]

RegistryInit ==
    /\ tower = "up" /\ records = NoRecords /\ regFile = NoFile
    /\ saved = NoRecords /\ failed = FALSE /\ saves = 0 /\ stops = 0

\* register and update, up to _save.
RegisterRecord(c, v) ==
    /\ tower = "up" /\ saves < MaxSaves
    /\ saves' = saves + 1
    /\ records' = [records EXCEPT ![c] = v]
    /\ tower' = "truncate"
    /\ UNCHANGED <<regFile, saved, failed, stops>>

\* _save: write_text empties the file, then writes every record.
TruncateFile ==
    /\ tower = "truncate"
    /\ tower' = "write" /\ regFile' = Broken
    /\ UNCHANGED <<records, saved, failed, saves, stops>>
NewRecordsOnly == [c \in Watched |-> IF records[c] = saved[c] THEN 0 ELSE records[c]]
Serialised == records
WriteFile ==
    /\ tower = "write"
    /\ tower' = "up" /\ regFile' = Serialised /\ saved' = records /\ failed' = FALSE
    /\ UNCHANGED <<records, saves, stops>>

\* Opening or writing raises; what is in the file stays.
SaveFails ==
    /\ tower \in {"truncate", "write"}
    /\ tower' = "up" /\ failed' = TRUE
    /\ UNCHANGED <<records, regFile, saved, saves, stops>>

StopTower ==
    /\ tower # "down" /\ stops < MaxStops
    /\ tower' = "down" /\ stops' = stops + 1 /\ records' = NoRecords
    /\ UNCHANGED <<regFile, saved, failed, saves>>

\* Registry.open: no file is an empty registry; json.loads raises on a broken
\* one, and the tower does not come up.
OpenRegistry ==
    /\ tower = "down" /\ regFile # Broken
    /\ tower' = "up" /\ failed' = FALSE
    /\ records' = IF regFile = NoFile THEN NoRecords ELSE regFile
    /\ UNCHANGED <<regFile, saved, saves, stops>>

RegistryNext ==
    \/ \E c \in Watched, v \in RecordVersions : RegisterRecord(c, v)
    \/ TruncateFile \/ WriteFile \/ SaveFails \/ StopTower \/ OpenRegistry

RegistrySpec == RegistryInit /\ [][RegistryNext]_registryVars

-----------------------------------------------------------------------------
\* A tower that comes up watches every channel with the state of the last save
\* that completed, and goes on to agree with its file until a save fails: one
\* channel's registration never costs another its record, a failed or cut-off
\* save leaves a file that is refused as a whole and is never read as an older
\* or a partial registry, and the next save that completes repairs it.
RegistryReloads ==
    /\ regFile \in {NoFile, Broken} \/ regFile = saved
    /\ (tower = "up" /\ ~failed) => records = saved
=============================================================================
