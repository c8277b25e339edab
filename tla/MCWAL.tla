------------------------------- MODULE MCWAL -------------------------------
(***************************************************************************)
(* WAL for model checking: Voter is a set of model values, and SegmentSize *)
(* counts records, so that a few calls rotate segments and cover them.     *)
(***************************************************************************)
EXTENDS WAL, TLC

=============================================================================
