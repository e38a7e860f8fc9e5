--------------------------- MODULE MCStateArchive ---------------------------
(***************************************************************************)
(* Small instance of StateArchive: two state objects, two contents and one *)
(* backup identity, used again after a failed or an expired backup.        *)
(***************************************************************************)
EXTENDS StateArchive
=============================================================================
