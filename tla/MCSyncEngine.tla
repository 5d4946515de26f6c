----------------------------- MODULE MCSyncEngine -----------------------------
(***************************************************************************)
(* The instance of SyncEngine the runs check.  The module is finite once   *)
(* the questions to the policy are bounded; nothing else needs a bound.    *)
(***************************************************************************)
EXTENDS SyncEngine

=============================================================================
