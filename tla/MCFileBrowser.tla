---------------------------- MODULE MCFileBrowser ----------------------------
(* Model-checking instance of FileBrowser. *)
EXTENDS FileBrowser

CONSTANTS a, b, c

MCInitialDisk == [n \in Name |-> IF n = a THEN "file" ELSE
                                 IF n = b THEN "directory" ELSE "none"]
=============================================================================
