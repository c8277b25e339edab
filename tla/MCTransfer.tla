---------------------------- MODULE MCTransfer ----------------------------
(***************************************************************************)
(* Instances of Transfer, with Snapshot files of two, three and one chunks.  *)
(***************************************************************************)
EXTENDS Transfer

MCLength == <<2, 3, 1>>

AppendMessages == {"AppendEntries", "AppendEntriesResponse"}

=============================================================================
