--------------------------- MODULE FolderHierarchy ---------------------------
(****************************************************************************)
(* What the folders component promises: a forest of folders that is grown   *)
(* one folder at a time, pruned one folder at a time (the children of a     *)
(* deleted folder become roots, ON DELETE SET NULL) and re-hung one folder  *)
(* at a time, never below itself.                                           *)
(*                                                                          *)
(* Every operation is one step here.  FolderTree is the implementation:     *)
(* there an operation is a request that reads folders one await at a time   *)
(* before it writes.                                                        *)
(****************************************************************************)
EXTENDS FiniteSets

CONSTANTS
    Folders,  \* the folder ids the database can ever hand out (uuid)
    None      \* "no parent": parentId is NULL; not one of Folders

VARIABLES
    live,    \* the ids of the rows of table Folder
    used,    \* the ids ever given to a row: a uuid is not given twice
    parent   \* parent[f]: the parentId of row f, None when it is NULL

hvars == <<live, used, parent>>

(****************************************************************************)
(* A set of folders is closed when it holds the parent of each of its       *)
(* members.  A folder's enclosing folders are what every closed set that    *)
(* holds it must hold: itself, its parent, its parent's parent ...          *)
(****************************************************************************)
Closed(S) == \A f \in S : parent[f] \in S \cup {None}

Enclosing(f) == {g \in Folders : \A S \in SUBSET Folders :
                                     f \in S /\ Closed(S) => g \in S}

Init ==
    /\ live = {}
    /\ used = {}
    /\ parent = [f \in Folders |-> None]

\* createFolder: a new row below p, or a root.
Add(f, p) ==
    /\ f \in Folders \ used
    /\ p \in live \cup {None}
    /\ live' = live \cup {f}
    /\ used' = used \cup {f}
    /\ parent' = [parent EXCEPT ![f] = p]

\* deleteFolder: the row goes, its children become roots.
Remove(f) ==
    /\ f \in live
    /\ live' = live \ {f}
    /\ parent' = [g \in Folders |->
                    IF g = f \/ parent[g] = f THEN None ELSE parent[g]]
    /\ UNCHANGED used

\* moveFolder: f is hung below p, which is not f nor any folder inside f.
Move(f, p) ==
    /\ f \in live
    /\ p \in live
    /\ f \notin Enclosing(p)
    /\ parent' = [parent EXCEPT ![f] = p]
    /\ UNCHANGED <<live, used>>

Next ==
    \/ \E f \in Folders, p \in Folders \cup {None} : Add(f, p)
    \/ \E f \in Folders : Remove(f)
    \/ \E f, p \in Folders : Move(f, p)

Spec == Init /\ [][Next]_hvars

(****************************************************************************)
(* Every non-empty set of folders has a member whose parent is outside it:  *)
(* no folder can be reached from itself by following parentId.              *)
(* getFolderAncestors and getAllSubfolderIds recurse along parentId with no *)
(* other way to stop.                                                       *)
(****************************************************************************)
Forest == \A S \in SUBSET Folders : S # {} => \E f \in S : parent[f] \notin S

\* The foreign key Folder.parentId -> Folder.id, and rows only of issued ids.
RowsOK ==
    /\ live \subseteq used
    /\ used \subseteq Folders
    /\ parent \in [Folders -> live \cup {None}]
    /\ \A f \in Folders \ live : parent[f] = None
=============================================================================
