--------------------------- MODULE FileStateStore ---------------------------
(***************************************************************************)
(* FileStateStore of src/pkg/graph/state_store_file.go. Save writes the    *)
(* snapshot to <id>.json.tmp and renames it to <id>.json; nothing locks    *)
(* the directory. Files are inodes: os.WriteFile truncates the temporary   *)
(* file if there is one, and a saver writes into the inode it opened       *)
(* whatever has been renamed or removed since.                             *)
(***************************************************************************)
EXTENDS Naturals, FiniteSets

CONSTANTS
    Ids, Snaps, None,
    Savers,        \* callers of the store
    Clearers,      \* those of them that call Clear
    SaverIds       \* saver -> the execution identifiers it saves

VARIABLES
    tmp, file,     \* identifier -> contents: None, "partial" or a snapshot
    saver          \* per caller: Save or SaveBatch in progress, or Clear

vars == <<tmp, file, saver>>

(* "at" is where the inode a saver has open is: still the temporary file   *)
(* of id, renamed to the file of id by another saver, or unlinked.         *)
Idle == [pc |-> "idle", todo |-> {}, id |-> None, snap |-> None, at |-> "gone"]

Contents == Snaps \cup {None, "partial"}

TypeOK ==
    /\ tmp \in [Ids -> Contents] /\ file \in [Ids -> Contents]
    /\ saver \in [Savers -> [pc : {"idle", "open", "write", "rename", "clear"}, todo : SUBSET Ids,
                             id : Ids \cup {None}, snap : Snaps \cup {None}, at : {"tmp", "file", "gone"}]]

Init ==
    /\ tmp = [i \in Ids |-> None] /\ file = [i \in Ids |-> None]
    /\ saver = [s \in Savers |-> Idle]

(* Savers of i whose open inode moves from one place to another.           *)
Moved(sv, i, moves) == [s \in Savers |-> IF sv[s].id = i THEN [sv[s] EXCEPT !.at = moves[@]] ELSE sv[s]]

(* Save, or SaveBatch over several identifiers one after the other. The    *)
(* batch is not validated as a whole first, whatever its comment says: the *)
(* refusal of one entry leaves those before it saved (Refuse).             *)
SaveBatch(s, ids, x) ==
    /\ saver[s].pc = "idle" /\ ids # {} /\ ids \subseteq SaverIds[s]
    /\ saver' = [saver EXCEPT ![s] = [Idle EXCEPT !.pc = "open", !.todo = ids, !.snap = x]]
    /\ UNCHANGED <<tmp, file>>

(* An identifier or snapshot of the batch is refused, the context is       *)
(* cancelled, or encoding fails: what was saved stays.                     *)
Refuse(s) ==
    /\ saver[s].pc = "open"
    /\ saver' = [saver EXCEPT ![s] = Idle]
    /\ UNCHANGED <<tmp, file>>

Open(s, i) ==
    /\ saver[s].pc = "open" /\ i \in saver[s].todo
    /\ tmp' = [tmp EXCEPT ![i] = "partial"]
    /\ saver' = [saver EXCEPT ![s].pc = "write", ![s].id = i, ![s].at = "tmp"]
    /\ UNCHANGED file

Write(s) ==
    LET i == saver[s].id IN
    /\ saver[s].pc = "write"
    /\ tmp' = IF saver[s].at = "tmp" THEN [tmp EXCEPT ![i] = saver[s].snap] ELSE tmp
    /\ file' = IF saver[s].at = "file" THEN [file EXCEPT ![i] = saver[s].snap] ELSE file
    /\ saver' = [saver EXCEPT ![s].pc = "rename"]

WriteFails(s) ==
    /\ saver[s].pc = "write"
    /\ saver' = [saver EXCEPT ![s] = Idle]
    /\ UNCHANGED <<tmp, file>>

(* The rename takes whatever the temporary file is now, and fails when it  *)
(* is gone.                                                                *)
Renamed(s) ==
    LET i == saver[s].id
        rest == saver[s].todo \ {i}
        moved == Moved(saver, i, [tmp |-> "file", file |-> "gone", gone |-> "gone"]) IN
    IF tmp[i] = None
    THEN UNCHANGED <<tmp, file>> /\ saver' = [saver EXCEPT ![s] = Idle]
    ELSE /\ file' = [file EXCEPT ![i] = tmp[i]]
         /\ tmp' = [tmp EXCEPT ![i] = None]
         /\ saver' = [moved EXCEPT ![s] = IF rest = {} THEN Idle
                         ELSE [Idle EXCEPT !.pc = "open", !.todo = rest, !.snap = saver[s].snap]]

(* Mutant: the file is renamed before its contents are written. *)
Rename_Early(s) == saver[s].pc \in {"write", "rename"} /\ Renamed(s)

Rename(s) == saver[s].pc = "rename" /\ Renamed(s)

Remove(i) ==
    /\ file[i] # None
    /\ file' = [file EXCEPT ![i] = None]
    /\ saver' = Moved(saver, i, [tmp |-> "tmp", file |-> "gone", gone |-> "gone"])
    /\ UNCHANGED tmp

RemoveTmp(i) ==
    /\ tmp[i] # None
    /\ tmp' = [tmp EXCEPT ![i] = None]
    /\ saver' = Moved(saver, i, [tmp |-> "gone", file |-> "file", gone |-> "gone"])
    /\ UNCHANGED file

Delete(i) == Remove(i)

(* List removes a temporary file that is more than an hour old: no saver   *)
(* takes that long between its write and its rename.                       *)
List(i) ==
    /\ \A s \in Savers : saver[s].pc \in {"write", "rename"} => saver[s].id # i
    /\ RemoveTmp(i)

(* Clear reads the directory once and removes the entries one by one,      *)
(* temporary files included; it ends when an entry is already gone.        *)
Clear(s) ==
    /\ saver[s].pc = "idle" /\ s \in Clearers
    /\ saver' = [saver EXCEPT ![s].pc = "clear", ![s].todo = {i \in Ids : file[i] # None \/ tmp[i] # None}]
    /\ UNCHANGED <<tmp, file>>

ClearEntry(s, i) ==
    /\ saver[s].pc = "clear" /\ i \in saver[s].todo
    /\ Remove(i) \/ RemoveTmp(i)

ClearEnds(s) ==
    /\ saver[s].pc = "clear"
    /\ saver' = [saver EXCEPT ![s] = Idle]
    /\ UNCHANGED <<tmp, file>>

(* The process dies and is started again on the same directory.            *)
Crash ==
    /\ saver' = [s \in Savers |-> Idle]
    /\ UNCHANGED <<tmp, file>>

Next ==
    \/ \E s \in Savers :
          \/ \E ids \in SUBSET Ids, x \in Snaps : SaveBatch(s, ids, x)
          \/ \E i \in Ids : Open(s, i)
          \/ Refuse(s) \/ Write(s) \/ WriteFails(s) \/ Rename(s)
          \/ Clear(s) \/ ClearEnds(s) \/ \E i \in Ids : ClearEntry(s, i)
    \/ \E i \in Ids : Delete(i) \/ List(i)
    \/ Crash

Spec == Init /\ [][Next]_vars

-----------------------------------------------------------------------------
Mem == INSTANCE SnapshotStore WITH snapshots <- file

(* Savers of different executions, through crashes at any point, batches   *)
(* that stop half way and Clear: every step of the directory is a step of  *)
(* the store in memory, or changes nothing Load returns; no Load ever      *)
(* returns part of a snapshot.                                             *)
ImplementsMemoryStore == Mem!Next \/ UNCHANGED file

==============================================================================
