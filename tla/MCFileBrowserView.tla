------------------------- MODULE MCFileBrowserView -------------------------
(***************************************************************************)
(* A share for FileBrowserView: two directories, with two files and one.   *)
(***************************************************************************)
EXTENDS FileBrowserView, TLC

CONSTANTS d1, d2, f1, f2, f3

InDirs == d1 :> {f1, f2} @@ d2 :> {f3}

\* No filter, or one that hides a file of each directory.
MCFilters == {{}, {f1, f3}}
=============================================================================
