-------------------------- MODULE MCPermissionSort --------------------------
(* PermissionSort for TLC: GetNonLocationHistory, then GetLocationHistory.  *)
EXTENDS PermissionSort

Standard == <<2, 1>>
=============================================================================
