---------------------------- MODULE MCFolderSync ----------------------------
(***************************************************************************)
(* A folder with one file in it and a file beside it, for TLC.             *)
(***************************************************************************)
EXTENDS FolderSync

MCOrder == <<"d", "d/f", "g">>
MCDirs == {"d"}
MCParentOf == [p \in {"d", "d/f", "g"} |-> IF p = "d/f" THEN "d" ELSE "/"]

\* Files of two chunks, and every other edit makes a short one.
MCSizes3 == <<2, 1, 2>>

=============================================================================
