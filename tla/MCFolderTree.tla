---------------------------- MODULE MCFolderTree ----------------------------
(****************************************************************************)
(* FolderTree for TLC: the cfg files give the folders, the request slots    *)
(* and which of them may carry a moveFolder.                                *)
(****************************************************************************)
EXTENDS FolderTree
=============================================================================
