---------------------------- MODULE MCSmbSession ----------------------------
(***************************************************************************)
(* The requests of the instances of SmbSession.                            *)
(***************************************************************************)
EXTENDS SmbSession

CONSTANTS l1, l2, s1
=============================================================================
