--------------------------- MODULE SnapshotFiles ---------------------------
(***************************************************************************)
(* How Save (internal/snapshot) installs a Snapshot file: as operations on *)
(* the file system, and what a crash among them leaves in the directory.   *)
(*                                                                         *)
(* A directory entry is durable once the directory is synced, and contents *)
(* once the file is: until then a crash may keep the old or the new.       *)
(***************************************************************************)
EXTENDS Sequences, SequencesExt

\* name: what the file is called; names: what it may be called after a crash;
\* written, synced: how far its contents are.
NoFile == [name |-> "none", names |-> {"none"}, written |-> FALSE, synced |-> FALSE]

Perform(file, operation) ==
  CASE operation = "CreateTemp" -> [file EXCEPT !.name = "temp", !.names = @ \cup {"temp"}]
    [] operation = "Write" -> [file EXCEPT !.written = TRUE]
    [] operation = "Sync" -> [file EXCEPT !.synced = file.written]
    [] operation = "Rename" -> [file EXCEPT !.name = "final", !.names = @ \cup {"final"}]
    [] operation = "SyncDirectory" -> [file EXCEPT !.names = {file.name}]

\* Mutant: the file is renamed before its contents are synced.
SaveRenamingFirst == <<"CreateTemp", "Write", "Rename", "Sync", "SyncDirectory">>

\* The operations of Save.
SaveOperations == <<"CreateTemp", "Write", "Sync", "Rename", "SyncDirectory">>

\* What a crash may leave: a name, and whether the contents are all there.
AfterCrash(file) ==
  {[name |-> n, whole |-> w] : n \in file.names, w \in {TRUE, file.synced}}

\* What a crash anywhere in Save may leave.
InterruptedSave ==
  UNION {AfterCrash(FoldLeft(Perform, NoFile, SubSeq(SaveOperations, 1, k))) :
           k \in 0..Len(SaveOperations)}

\* The Snapshot files of a crashed Save: a temporary file is never looked at,
\* LoadNewest and Open search the directory for final names.
FilesLeft(index, term) ==
  {{[index |-> index, term |-> term, whole |-> left.whole] : name \in {left.name} \cap {"final"}} :
     left \in InterruptedSave}

=============================================================================
