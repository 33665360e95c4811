------------------------------ MODULE MCJournal ------------------------------
(***************************************************************************)
(* Two months and two requests at a time: enough for two first postings of *)
(* a month, for a close during a posting, and for two reversals of one     *)
(* entry to overlap.                                                       *)
(***************************************************************************)
EXTENDS Journal
=============================================================================
